---------------------------- MODULE Spec2Model ----------------------------
(***************************************************************************)
(* Verification model of qrml.py (quotient Riemannian manifold learning).  *)
(*                                                                         *)
(* One Simplex instance is modelled: its fields (pointcloud, edge_matrix,  *)
(* edges, dim, coords, new_coords, p_idx) and the local state of the       *)
(* operation that is running on it.  Python lists and numpy arrays are     *)
(* functions over 0..n-1 (0-based, as in the source) unless the source     *)
(* slices them by position, where TLA+ sequences (1-based) are used.       *)
(*                                                                         *)
(* Real numbers: points live on an integer lattice, a Euclidean length is  *)
(* the fixed-point number Norm(v) = floor(Scale * sqrt(v.v)), and the      *)
(* intrinsic dimension of the instance is 1, so that a coordinate is one   *)
(* fixed-point number.  NaN (0/0 in numpy, warnings are ignored at         *)
(* qrml.py:19) is the value NaN, which no arithmetic is applied to.        *)
(***************************************************************************)
EXTENDS Integers, Sequences, FiniteSets, TLC

VARIABLES
    pc,               \* which operation runs on the instance, and where it is
    n,                \* len(self.pointcloud)
    pointcloud,       \* Simplex.pointcloud
    edge_matrix,      \* Simplex.edge_matrix
    edges,            \* Simplex.edges
    dim,              \* Simplex.dim
    coords,           \* Simplex.coords
    self_p_idx,       \* Simplex.p_idx (no attribute of that name until a solver stores it)
    new_coords,       \* Simplex.new_coords (no such attribute until new_proj stores it)
    k,                \* build_simplex: number of nearest neighbours
    edge_sen,         \* build_simplex: edge sensitivity, <<numerator, denominator>>
    build_i,          \* build_simplex: index of the next point of the find_safe_edges loop
    variant,          \* the coordinate solver that was called
    k0,               \* normal_coords: the caller's k0
    p_idx,            \* normal_coords: the base point (a local of the call)
    p_dist,           \* normal_coords: dist_matrix[p_idx], the finite entries
    predecessors,     \* normal_coords: predecessors[p_idx], from dijkstra
    computed_points,  \* normal_coords: the 'computed' flags
    edge,             \* normal_coords: the mask of the base point's neighbours
    sorted_inds,      \* normal_coords: np.argsort(p_dist), a sequence
    loop_i,           \* normal_coords: position of the for loop in sorted_inds (1-based)
    writes,           \* history: how often the call assigned each point's coordinate
    tear_a,           \* new_proj: the caller's tear ratio a, <<numerator, denominator>>
    tear_points,      \* new_proj: the tear points of the first assignment
    d,                \* new_proj: how many placements went around a tear point
    boundary_edges,   \* the directed edges handed to find_orientation and clean_boundary
    n_edges,          \* find_orientation: list(edges), indexed from 0
    orientation,      \* the ordered edges, indexed from 0
    tol,              \* clean_boundary: the caller's tol
    included,         \* clean_boundary: the 'included' flags, indexed from 0
    keep_looping,     \* clean_boundary: the flag of the while loop
    clean_run,        \* history: 1 in the first boundary extraction, 2 in a repeated one
    dropped,          \* history: the points the first clean_boundary run dropped
    passes,           \* history: the passes of the while loop of clean_boundary so far
    rect,             \* the rectangle the cleaned cycle walks: its side lengths and its start
    connection_tol,   \* compute_quotient_edges: the caller's connection_tol
    quotient_tol,     \* compute_quotient_edges: the caller's quotient_tol
    tol1,             \* compute_quotient_edges: the caller's tol1
    clean_orientation,  \* the cleaned cycle: the boundary points in order, indexed from 0
    short_connections,  \* intersection: the short-circuit neighbours of each place
    short_idxs,       \* intersection: the places that have some, ascending, indexed from 0
    short_edges,      \* the short-circuit edges, lists of places
    non_short_edges,  \* the other edges, lists of places
    glued_edges,      \* connect_edges: the glued pairs, lists of indices into short_edges
    same_orientation, \* gluing_orientation: one flag per glued pair
    orientation_dict, \* assemble_quotient
    colour_dict,      \* assemble_quotient
    ret,              \* what the last call returned
    exc               \* the exception the last call raised, "" if none

instVars  == <<n, pointcloud, edge_matrix, edges, dim, coords, self_p_idx, new_coords>>
graphVars == <<n, pointcloud, edge_matrix, edges, dim>>
buildVars == <<k, edge_sen, build_i>>
solveVars == <<variant, k0, p_idx, p_dist, predecessors, computed_points, edge,
               sorted_inds, loop_i, writes>>

projVars  == <<tear_a, tear_points, d>>
bndVars   == <<boundary_edges, n_edges, orientation, tol, included, keep_looping,
               clean_run, dropped, passes>>

quoVars   == <<rect, connection_tol, quotient_tol, tol1, clean_orientation,
               short_connections, short_idxs, short_edges, non_short_edges, glued_edges,
               same_orientation, orientation_dict, colour_dict>>

vars == <<pc, instVars, buildVars, solveVars, projVars, bndVars, quoVars, ret, exc>>

-----------------------------------------------------------------------------
(* Bounds of the model *)

NPts == 4          \* number of points of a point cloud
GridMax == 2       \* lattice points are (0..GridMax) x (0..1)
Scale == 10        \* fixed-point scale of a Euclidean length

None == "None"     \* Python's None
NoFrame == "-"     \* a local of an operation that is not running
NoCoords == <<>>   \* self.coords = None: no coordinate array yet
NoAttr == -1       \* an attribute the instance does not have
NaN == -2000000000 \* numpy's nan: a number no coordinate equals

Pts == 0 .. (n - 1)
Lattice == (0 .. GridMax) \X (0 .. 1)

-----------------------------------------------------------------------------
(* Arithmetic *)

Sub(u, v) == <<u[1] - v[1], u[2] - v[2]>>
Dot(u, v) == u[1] * v[1] + u[2] * v[2]

Abs(x) == IF x < 0 THEN 0 - x ELSE x

\* floor(Scale * sqrt(m)) for the squared lengths of the lattice
NormTab ==
    [m \in 0 .. (GridMax * GridMax + 1) |->
        CHOOSE r \in 0 .. (2 * Scale * GridMax) :
            r * r <= Scale * Scale * m /\ (r + 1) * (r + 1) > Scale * Scale * m]

\* np.linalg.norm / the KDTree distance of a lattice vector, in fixed point
Norm(v) ==
    IF v[2] = 0 THEN Scale * Abs(v[1])
    ELSE IF v[1] = 0 THEN Scale * Abs(v[2])
    ELSE NormTab[Dot(v, v)]

RECURSIVE SeqSum(_)
SeqSum(s) == IF s = <<>> THEN 0 ELSE Head(s) + SeqSum(Tail(s))

Range(s) == {s[t] : t \in DOMAIN s}

\* the subsequence of s at the positions (ascending) where keep holds
RECURSIVE FilterSeq(_, _)
FilterSeq(s, keep) ==
    IF s = <<>> THEN <<>>
    ELSE LET rest == FilterSeq(Tail(s), [t \in 1 .. (Len(s) - 1) |-> keep[t + 1]])
         IN  IF keep[1] THEN <<Head(s)>> \o rest ELSE rest

-----------------------------------------------------------------------------
(* build_simplex: the neighbour graph *)

Dist(cloud, a, b) == Norm(Sub(cloud[a], cloud[b]))

\* the sequences of kk points of rest, ascending by distance from i, no
\* point of rest left out being nearer than the last one taken
RECURSIVE NearestRows(_, _, _, _)
NearestRows(cloud, i, rest, kk) ==
    IF kk = 0 \/ rest = {} THEN {<<>>}
    ELSE LET near == {m \in rest : \A o \in rest : Dist(cloud, i, m) <= Dist(cloud, i, o)}
         IN  UNION {{<<m>> \o r : r \in NearestRows(cloud, i, rest \ {m}, kk - 1)} : m \in near}

\* kd_tree.query(pointcloud, k=k+1)[i]: the k+1 nearest points of i, itself
\* included, ascending by distance; the order among equal distances is the
\* tree's choice.
KnnRows(cloud, i, kk) == NearestRows(cloud, i, Pts, kk + 1)

\* find_visible_edge: the candidates of ind no other candidate shadows
VisibleMask(cloud, idx, ind) ==
    [t \in DOMAIN ind |->
        \A u \in DOMAIN ind :
            ind[u] # ind[t] =>
                ~ (Dot(Sub(cloud[idx], cloud[ind[u]]),
                       Sub(cloud[ind[t]], cloud[ind[u]])) < 0)]

find_visible_edge(cloud, idx, ind) == FilterSeq(ind, VisibleMask(cloud, idx, ind))

DistSeq(cloud, idx, ind) == [t \in DOMAIN ind |-> Dist(cloud, idx, ind[t])]

\* find_safe_edges: the lengths of the prefix of ind that can be retained.
\* The loop cuts at j (keeping ind[:j-1]) when the PCA estimate grew from
\* j-1 to j edges and dist[j-1] - dist[j-2] > edge_sen * mean(dist); the PCA
\* estimate is the collaborator's, so every j >= 3 that passes the gap test
\* can be the first cut (at j = 2 the code sets dim0 = dim1).
SafePrefixes(dist, sen) ==
    {Len(dist)} \cup
    {j - 1 : j \in {c \in 3 .. Len(dist) :
                (dist[c] - dist[c - 1]) * Len(dist) * sen[2] > sen[1] * SeqSum(dist)}}

\* a mutant of WriteEdges: the transposed assignment is missing
WriteEdgesOneWay(em, idx, ind, dist, len) ==
    [a \in Pts, b \in Pts |->
        IF a = idx /\ \E t \in 1 .. len : ind[t] = b
        THEN dist[CHOOSE t \in 1 .. len : ind[t] = b]
        ELSE em[a, b]]

\* edge_matrix[idx, ind[:len]] = dist[:len]; edge_matrix[ind[:len], idx] = dist[:len]
WriteEdges(em, idx, ind, dist, len) ==
    [a \in Pts, b \in Pts |->
        IF a = idx /\ \E t \in 1 .. len : ind[t] = b
        THEN dist[CHOOSE t \in 1 .. len : ind[t] = b]
        ELSE IF b = idx /\ \E t \in 1 .. len : ind[t] = a
        THEN dist[CHOOSE t \in 1 .. len : ind[t] = a]
        ELSE em[a, b]]

\* the matrices find_safe_edges(idx, ...) can leave, called on the visible
\* candidates of the KDTree row of idx without its first column
find_safe_edges(cloud, em, idx, kk, sen) ==
    UNION {LET ind  == find_visible_edge(cloud, idx, Tail(row))
               dist == DistSeq(cloud, idx, ind)
           IN  {WriteEdges(em, idx, ind, dist, len) : len \in SafePrefixes(dist, sen)}
           : row \in KnnRows(cloud, idx, kk)}

\* np.where(edge_matrix[i] != 0)[0]
Where(em) == [a \in Pts |-> {b \in Pts : em[a, b] # 0}]

\* csr_matrix(edge_matrix): row by row, the columns of the nonzero entries and
\* their values
Csr(em) == [a \in Pts |-> [b \in {c \in Pts : em[a, c] # 0} |-> em[a, b]]]

\* edge_matrix[a, b] of the csr matrix
Entry(em, a, b) == IF b \in DOMAIN em[a] THEN em[a][b] ELSE 0

\* The point clouds: the results of build_simplex do not depend on the order
\* in which the points are listed (the KDTree's tie order is a free choice
\* here and the writes of find_safe_edges commute), so the clouds are listed
\* in lexicographic order; a position may be repeated.
LexLeq(u, v) == u[1] < v[1] \/ (u[1] = v[1] /\ u[2] <= v[2])

Clouds ==
    {c \in [0 .. (NPts - 1) -> Lattice] :
        \A a \in 0 .. (NPts - 2) : LexLeq(c[a], c[a + 1])}

\* the caller's edge_sen, a positive float: 1/4
EdgeSen == <<1, 4>>

\* no boundary extraction is running
NoBoundaryFrame ==
    /\ boundary_edges = NoFrame
    /\ n_edges = NoFrame
    /\ orientation = NoFrame
    /\ tol = NoFrame
    /\ included = NoFrame
    /\ keep_looping = NoFrame
    /\ clean_run = NoFrame
    /\ dropped = NoFrame
    /\ passes = NoFrame

\* no quotient assembly is running
NoQuotientFrame ==
    /\ rect = NoFrame
    /\ connection_tol = NoFrame
    /\ quotient_tol = NoFrame
    /\ tol1 = NoFrame
    /\ clean_orientation = NoFrame
    /\ short_connections = NoFrame
    /\ short_idxs = NoFrame
    /\ short_edges = NoFrame
    /\ non_short_edges = NoFrame
    /\ glued_edges = NoFrame
    /\ same_orientation = NoFrame
    /\ orientation_dict = NoFrame
    /\ colour_dict = NoFrame

NoSolveFrame ==
    /\ variant = NoFrame
    /\ k0 = NoFrame
    /\ p_idx = NoFrame
    /\ p_dist = NoFrame
    /\ predecessors = NoFrame
    /\ computed_points = NoFrame
    /\ edge = NoFrame
    /\ sorted_inds = NoFrame
    /\ loop_i = NoFrame
    /\ writes = NoFrame
    /\ tear_a = NoFrame
    /\ tear_points = NoFrame
    /\ d = NoFrame

\* build_simplex(pointcloud, k, edge_sen) on a fresh Simplex(), at line 1010
InitBuild ==
    /\ pc = "build"
    /\ n = NPts
    /\ pointcloud \in Clouds
    /\ edge_matrix = [a \in Pts, b \in Pts |-> 0]      \* np.zeros([n, n])
    /\ edges = <<>>                                     \* self.edges = []
    /\ dim = None
    /\ coords = NoCoords
    /\ self_p_idx = NoAttr
    /\ new_coords = NoCoords
    /\ k \in 1 .. (NPts - 1)
    /\ edge_sen = EdgeSen
    /\ build_i = 0
    /\ NoSolveFrame
    /\ NoBoundaryFrame
    /\ NoQuotientFrame
    /\ ret = None
    /\ exc = ""

\* one iteration of the list comprehension over find_safe_edges (line 1019)
FindSafeEdges ==
    /\ pc = "build"
    /\ build_i < NPts
    /\ edge_matrix' \in find_safe_edges(pointcloud, edge_matrix, build_i, k, edge_sen)
    /\ build_i' = build_i + 1
    /\ UNCHANGED <<bndVars, quoVars, pc, n, pointcloud, edges, dim, coords, self_p_idx, new_coords, k,
                   edge_sen, solveVars, projVars, ret, exc>>

\* lines 1020-1031: the neighbour lists are read off the matrix; dim is the
\* mode of the elbow estimates (collaborator); the model keeps to instances of
\* intrinsic dimension 1
FinishBuild ==
    /\ pc = "build"
    /\ build_i = NPts
    /\ edges' = Where(edge_matrix)
    /\ dim' = 1
    /\ edge_matrix' = Csr(edge_matrix)
    /\ pc' = "built"
    /\ UNCHANGED <<bndVars, quoVars, n, pointcloud, coords, self_p_idx, new_coords, buildVars, solveVars,
                   projVars, ret, exc>>

NextBuild == FindSafeEdges \/ FinishBuild

SpecBuild == InitBuild /\ [][NextBuild]_vars

\* C1: after build_simplex the neighbour graph is symmetric: equal stored
\* weights in both directions, y in edges[p] iff p in edges[y], and no point is
\* its own neighbour, whichever endpoint's pruning retained the edge.  (The
\* matrix is symmetric after every find_safe_edges call as well.)
GraphSymmetric ==
    /\ pc = "build" => \A p, y \in Pts : edge_matrix[p, y] = edge_matrix[y, p]
    /\ pc = "built" =>
          \A p, y \in Pts : /\ Entry(edge_matrix, p, y) = Entry(edge_matrix, y, p)
                            /\ (y \in edges[p] <=> p \in edges[y])
                            /\ (y \in edges[p] <=> Entry(edge_matrix, p, y) # 0)
                            /\ p \notin edges[p]

\* the points find_safe_edges(p) can retain for p: the visible candidates of
\* some KDTree row of p
Candidates(cloud, p, kk) ==
    UNION {Range(find_visible_edge(cloud, p, Tail(row))) : row \in KnnRows(cloud, p, kk)}

\* a built graph with an edge p-y that only y's pruning can have retained (y
\* is no visible candidate of p), and a pair either end could retain that
\* neither end did
GraphSymmetricWitness ==
    /\ pc = "built"
    /\ \E p, y \in Pts :
          /\ y \in edges[p]
          /\ y \notin Candidates(pointcloud, p, k)
          /\ p \in Candidates(pointcloud, y, k)
    /\ \E p, y \in Pts :
          /\ y \in Candidates(pointcloud, p, k)
          /\ p \in Candidates(pointcloud, y, k)
          /\ y \notin edges[p]

-----------------------------------------------------------------------------
(* normal_coords, normal_coords_trade: the coordinate solvers *)

MaxK0 == 1         \* the caller's k0 is one of 0 .. MaxK0

Inf == 1000000 * Scale      \* np.inf: beyond every path length
NoPred == -9999             \* scipy's predecessor of a point no path reaches
IndexError == "IndexError"
GurobiError == "GurobiError"

SetMin(S) == CHOOSE x \in S : \A y \in S : x <= y
SetMax(S) == CHOOSE x \in S : \A y \in S : x >= y
Sgn(x) == IF x > 0 THEN 1 ELSE IF x < 0 THEN -1 ELSE 0

\* the elements of a set of indices as an ascending list
RECURSIVE Ascending(_)
Ascending(S) == IF S = {} THEN <<>> ELSE <<SetMin(S)>> \o Ascending(S \ {SetMin(S)})

RECURSIVE Flatten(_)
Flatten(ss) == IF ss = <<>> THEN <<>> ELSE Head(ss) \o Flatten(Tail(ss))

\* np.argsort(keys) over the positions rest: every order that is ascending by
\* key (numpy's order among equal keys is unspecified)
RECURSIVE ArgSorts(_, _)
ArgSorts(keys, rest) ==
    IF rest = {} THEN {<<>>}
    ELSE LET lo == {m \in rest : \A o \in rest : keys[m] <= keys[o]}
         IN  UNION {{<<m>> \o r : r \in ArgSorts(keys, rest \ {m})} : m \in lo}

\* one round of edge relaxation over the csr matrix em, from the distances ds
Relax(em, ds) ==
    LET reach == DOMAIN ds
        next  == reach \cup UNION {DOMAIN em[u] : u \in reach}
    IN  [v \in next |->
            SetMin((IF v \in reach THEN {ds[v]} ELSE {})
                   \cup {ds[u] + em[u][v] : u \in {w \in reach : v \in DOMAIN em[w]}})]

RECURSIVE Settle(_, _)
Settle(em, ds) == IF Relax(em, ds) = ds THEN ds ELSE Settle(em, Relax(em, ds))

\* dijkstra(em)[0][a]: the shortest path lengths from a, for the points a path
\* reaches (the others are at np.inf)
dijkstra(em, a) == Settle(em, [v \in {a} |-> 0])

\* dist_matrix[a, v], given row = dijkstra(em, a)
DistAt(row, v) == IF v \in DOMAIN row THEN row[v] ELSE Inf

\* np.amax(dist_matrix, axis=1)[a]
RowMax(row) == IF Cardinality(DOMAIN row) = n THEN SetMax(Range(row)) ELSE Inf

\* np.argmin: the first index of the least value
ArgMin(f) == LET lo == SetMin(Range(f)) IN SetMin({a \in DOMAIN f : f[a] = lo})

\* the points that can stand at predecessors[a, v], given row = dijkstra(em, a)
PredChoices(em, a, row, v) ==
    IF v \notin DOMAIN row \/ v = a THEN {NoPred}
    ELSE {u \in DOMAIN em[v] : u \in DOMAIN row /\ row[u] + em[u][v] = row[v]}

\* dijkstra(em, return_predecessors=True)[1][a]: where two shortest paths reach
\* a point, which one scipy records is its choice
PredRows(em, a, row) ==
    LET ties == {v \in DOMAIN row : Cardinality(PredChoices(em, a, row, v)) > 1}
    IN  {[v \in Pts |-> IF v \in ties THEN pick[v]
                        ELSE CHOOSE u \in PredChoices(em, a, row, v) : TRUE]
         : pick \in {f \in [ties -> Pts] :
                        \A v \in ties : f[v] \in PredChoices(em, a, row, v)}}

\* the m-th (from 0) index that is not in R
RECURSIVE Climb(_, _, _)
Climb(R, m, c) ==
    LET c2 == m + Cardinality({r \in R : r <= c})
    IN  IF c2 = c THEN c ELSE Climb(R, m, c2)

\* a mutant of SortedInds: the points in descending index order
UnsortedInds(row) == {[t \in 1 .. n |-> n - t]}

\* np.argsort(p_dist): the reached points ascending by distance, in every
\* order of the equal ones, then the unreached points (all at np.inf), which
\* are listed by ascending index
SortedInds(row) ==
    LET outside == [t \in 1 .. (n - Cardinality(DOMAIN row)) |-> Climb(DOMAIN row, t - 1, t - 1)]
    IN  {s \o outside : s \in ArgSorts(row, DOMAIN row)}

\* lst[i] for a Python list or numpy array of length n: a negative index
\* counts from the end, an index outside -n .. n-1 raises IndexError
InRange(i) == i >= 0 - n /\ i < n
PyIndex(i) == IF i >= 0 THEN i ELSE n + i

\* lines 1148-1153: the coordinate of the base point's neighbour e, projected
\* on the unit tangent vector (sign qs, along the edge to t) and rescaled to the
\* edge's length; a zero projection divided by its norm is nan
RingCoord(cloud, p, t, qs, e) ==
    LET proj == qs * Dot(Sub(cloud[t], cloud[p]), Sub(cloud[e], cloud[p]))
    IN  IF proj = 0 THEN NaN ELSE Sgn(proj) * Dist(cloud, e, p)

\* lines 1168-1175: computed_points_b, the placed neighbours of b and, if they
\* are fewer than dim + k0, the nearest (to idx) placed neighbours of those;
\* placed is computed_points, torn holds the tear points (none in the solvers),
\* row is dist_matrix[idx]
ReferencePoints(b, pred, kk, row, placed, torn) ==
    LET cpb == Ascending({i \in edges[b] : placed[i] /\ i \notin torn})
    IN  IF Len(cpb) < dim + kk
        THEN LET extra == Flatten([t \in DOMAIN cpb |->
                              Ascending({j \in edges[cpb[t]] :
                                  placed[j] /\ j \notin torn /\ j \notin Range(cpb) /\ j # pred})])
                 keys  == [t \in DOMAIN extra |-> DistAt(row, extra[t])]
                 more  == kk + dim - Len(cpb)
                 m     == IF more < Len(extra) THEN more ELSE Len(extra)
             IN  {cpb \o [t \in 1 .. m |-> extra[perm[t]]]
                  : perm \in ArgSorts(keys, DOMAIN extra)}
        ELSE {cpb}

\* lines 1185-1191: a row of y or A holds nan or inf
BadCoefficients(cloud, refs, b, alpha, xs) ==
    /\ refs # <<>>
    /\ \/ alpha = 0
       \/ xs[b] = NaN
       \/ \E t \in DOMAIN refs :
             \/ xs[refs[t]] = NaN
             \/ xs[refs[t]] = xs[b]
             \/ Dist(cloud, refs[t], b) = 0

\* sum over the reference points c of
\*   sign(c' - b') * (c - b).(q - b) / ||c - b||,   as <<numerator, denominator>>
RECURSIVE Vote(_, _, _, _, _)
Vote(cloud, refs, b, q, xs) ==
    IF refs = <<>> THEN <<0, 1>>
    ELSE LET c    == Head(refs)
             rest == Vote(cloud, Tail(refs), b, q, xs)
             term == Sgn(xs[c] - xs[b]) * Dot(Sub(cloud[c], cloud[b]), Sub(cloud[q], cloud[b]))
         IN  <<rest[1] * Dist(cloud, c, b) + term * rest[2], rest[2] * Dist(cloud, c, b)>>

\* lines 1193-1203: x.X, a minimiser of ||Ax - y||^2 on x.x = alpha^2.  In one
\* dimension the feasible points are alpha and -alpha and the objective differs
\* between them by a positive multiple of Vote.
Minimisers(cloud, refs, b, q, alpha, xs) ==
    LET v == Vote(cloud, refs, b, q, xs)[1]
    IN  IF alpha = 0 THEN {0}
        ELSE IF v > 0 THEN {alpha}
        ELSE IF v < 0 THEN {0 - alpha}
        ELSE {alpha, 0 - alpha}

\* x.X + b_prime
Add(x, bp) == IF bp = NaN THEN NaN ELSE x + bp

Variants == {"normal_coords", "normal_coords_trade"}

\* a mutant of Skip: only the base point is skipped
SkipBaseOnly(idx) == idx = p_idx

\* line 1163: if computed_points[idx]: continue
Skip(idx) == computed_points[idx]

\* the matrices build_simplex can leave for a cloud, after find_safe_edges ran
\* for the points below i
RECURSIVE BuiltMatrices(_, _, _, _)
BuiltMatrices(cloud, kk, i, ems) ==
    IF i = n THEN ems
    ELSE BuiltMatrices(cloud, kk, i + 1,
             UNION {find_safe_edges(cloud, em, i, kk, EdgeSen) : em \in ems})

\* the clouds of pairwise different points
DistinctClouds == {c \in Clouds : \A a \in 0 .. (NPts - 2) : c[a] # c[a + 1]}

\* an instance on which build_simplex has returned
InitCoords ==
    /\ pc = "built"
    /\ n = NPts
    /\ pointcloud \in DistinctClouds
    /\ \E kk \in 1 .. (NPts - 1) :
         \E em \in BuiltMatrices(pointcloud, kk, 0, {[a \in Pts, b \in Pts |-> 0]}) :
            /\ edge_matrix = Csr(em)
            /\ edges = Where(em)
    /\ dim = 1
    /\ coords = NoCoords
    /\ self_p_idx = NoAttr
    /\ new_coords = NoCoords
    /\ k = NoFrame
    /\ edge_sen = NoFrame
    /\ build_i = NoFrame
    /\ NoSolveFrame
    /\ NoBoundaryFrame
    /\ NoQuotientFrame
    /\ ret = None
    /\ exc = ""

\* lines 1128-1141 (1293-1311): the call, up to the choice of the base point
\* (self.edges is a list, which never equals None)
CallSolver ==
    /\ pc = "built"
    /\ p_idx' = ArgMin([a \in Pts |-> RowMax(dijkstra(edge_matrix, a))])
    /\ p_dist' = dijkstra(edge_matrix, p_idx')
    /\ predecessors' \in PredRows(edge_matrix, p_idx', p_dist')
    /\ computed_points' = [i \in Pts |-> i = p_idx']
    /\ \E v \in Variants, kk \in 0 .. MaxK0 :
          /\ variant' = v
          /\ k0' = kk
          /\ self_p_idx' = IF v = "normal_coords" THEN self_p_idx ELSE p_idx'
    /\ coords' = [i \in Pts |-> 0]
    /\ edge' = [i \in Pts |-> FALSE]
    /\ writes' = [i \in Pts |-> 0]
    /\ pc' = "tangent"
    /\ UNCHANGED <<bndVars, quoVars, graphVars, new_coords, buildVars, sorted_inds, loop_i, projVars, ret, exc>>

\* lines 1143-1160: the tangent vector, the coordinates of the base point's
\* neighbours, the processing order.  np.random.choice needs dim neighbours to
\* choose from; a built graph of different points has no isolated point.
FirstRing ==
    /\ pc = "tangent"
    /\ Cardinality(edges[p_idx]) >= dim
    /\ \E t \in edges[p_idx], qs \in {1, -1} :
          coords' = [i \in Pts |-> IF i \in edges[p_idx]
                                   THEN RingCoord(pointcloud, p_idx, t, qs, i)
                                   ELSE coords[i]]
    /\ computed_points' = [i \in Pts |-> computed_points[i] \/ i \in edges[p_idx]]
    /\ edge' = [i \in Pts |-> i \in edges[p_idx]]
    /\ writes' = [i \in Pts |-> IF i \in edges[p_idx] THEN writes[i] + 1 ELSE writes[i]]
    /\ sorted_inds' \in SortedInds(p_dist)
    /\ loop_i' = 1
    /\ pc' = "loop"
    /\ UNCHANGED <<bndVars, quoVars, graphVars, self_p_idx, new_coords, buildVars, variant, k0, p_idx,
                   p_dist, predecessors, projVars, ret, exc>>

\* lines 1162-1164: a point that is placed already
LoopSkip ==
    /\ pc = "loop"
    /\ loop_i <= n
    /\ Skip(sorted_inds[loop_i])
    /\ loop_i' = loop_i + 1
    /\ UNCHANGED <<bndVars, quoVars, pc, instVars, buildVars, variant, k0, p_idx, p_dist, predecessors,
                   computed_points, edge, sorted_inds, writes, projVars, ret, exc>>

\* line 1168: self.edges[pred] with pred = -9999 and fewer than 9999 points
LoopIndexError ==
    /\ pc = "loop"
    /\ loop_i <= n
    /\ ~ Skip(sorted_inds[loop_i])
    /\ ~ InRange(predecessors[sorted_inds[loop_i]])
    /\ pc' = "raised"
    /\ exc' = IndexError
    /\ UNCHANGED <<bndVars, quoVars, instVars, buildVars, solveVars, projVars, ret>>

\* lines 1166-1202: the solver is handed nan or inf and raises
LoopSolveFails ==
    /\ pc = "loop"
    /\ loop_i <= n
    /\ LET idx  == sorted_inds[loop_i]
           pred == predecessors[idx]
           b    == PyIndex(pred)
       IN  /\ ~ Skip(idx)
           /\ InRange(pred)
           /\ \E refs \in ReferencePoints(b, pred, k0, dijkstra(edge_matrix, idx),
                                         computed_points, {}) :
                 BadCoefficients(pointcloud, refs, b, Dist(pointcloud, idx, b), coords)
    /\ pc' = "raised"
    /\ exc' = GurobiError
    /\ UNCHANGED <<bndVars, quoVars, instVars, buildVars, solveVars, projVars, ret>>

\* lines 1166-1205: the point idx is placed at distance alpha of its predecessor
LoopPlace ==
    /\ pc = "loop"
    /\ loop_i <= n
    /\ LET idx  == sorted_inds[loop_i]
           pred == predecessors[idx]
           b    == PyIndex(pred)
       IN  /\ ~ Skip(idx)
           /\ InRange(pred)
           /\ \E refs \in ReferencePoints(b, pred, k0, dijkstra(edge_matrix, idx),
                                         computed_points, {}) :
                 /\ ~ BadCoefficients(pointcloud, refs, b, Dist(pointcloud, idx, b), coords)
                 /\ \E x \in Minimisers(pointcloud, refs, b, idx,
                                         Dist(pointcloud, idx, b), coords) :
                       coords' = [coords EXCEPT ![idx] = Add(x, coords[b])]
           /\ computed_points' = [computed_points EXCEPT ![idx] = TRUE]
           /\ writes' = [writes EXCEPT ![idx] = @ + 1]
    /\ loop_i' = loop_i + 1
    /\ UNCHANGED <<bndVars, quoVars, pc, graphVars, self_p_idx, new_coords, buildVars, variant, k0,
                   p_idx, p_dist, predecessors, edge, sorted_inds, projVars, ret, exc>>

\* line 1207: return p_idx, edge
SolverReturns ==
    /\ pc = "loop"
    /\ loop_i = n + 1
    /\ pc' = "returned"
    /\ ret' = <<p_idx, edge>>
    /\ UNCHANGED <<bndVars, quoVars, instVars, buildVars, solveVars, projVars, exc>>

\* compute_quotient_edges, lines 1637-1638: no coordinates yet
QuotientWithoutCoords ==
    /\ pc \in {"built", "returned", "raised"}
    /\ coords = NoCoords
    /\ pc' = "done"
    /\ ret' = None
    /\ UNCHANGED <<bndVars, quoVars, instVars, buildVars, solveVars, projVars, exc>>

\* compute_quotient_edges, lines 1637-1641: the guard lets the coordinates
\* pass and the boundary is computed from them
QuotientFromCoords ==
    /\ pc \in {"built", "returned", "raised"}
    /\ coords # NoCoords
    /\ pc' = "alpha_shape"
    /\ UNCHANGED <<bndVars, quoVars, instVars, buildVars, solveVars, projVars, ret, exc>>

NextSolve ==
    \/ CallSolver
    \/ FirstRing
    \/ LoopSkip
    \/ LoopIndexError
    \/ LoopSolveFails
    \/ LoopPlace
    \/ SolverReturns
    \/ QuotientWithoutCoords
    \/ QuotientFromCoords


-----------------------------------------------------------------------------
(* new_proj: the tear reprojection *)

TearRatios == {<<1, 2>>, <<1, 1>>, <<5, 2>>}     \* the caller's a: 0.5, 1 or the default 2.5
AttributeError == "AttributeError"

\* find_tear_points(S, a): the points whose neighbours lie, in the coordinates,
\* more than a times as far on average as along the graph (a comparison with
\* nan is False)
find_tear_points(r) ==
    {i \in Pts :
        LET nb   == Ascending(edges[i])
            row  == dijkstra(edge_matrix, i)
        IN  /\ nb # <<>>
            /\ coords[i] # NaN
            /\ \A t \in DOMAIN nb : coords[nb[t]] # NaN
            /\ SeqSum([t \in DOMAIN nb |-> Abs(coords[nb[t]] - coords[i])]) * r[2]
                  > r[1] * SeqSum([t \in DOMAIN nb |-> DistAt(row, nb[t])])}

\* edge_matrix[b] = np.inf; edge_matrix[:, b] = np.inf: dijkstra reads an
\* infinite entry of a dense matrix as no edge
RemovePoint(em, b) ==
    [x \in Pts |-> IF x = b THEN [y \in {} |-> 0]
                   ELSE [y \in DOMAIN em[x] \ {b} |-> em[x][y]]]

\* a mutant of TearCopy: the point is removed from the stored matrix itself
TearCopyAliased(em, b) == [stored |-> RemovePoint(em, b), local |-> RemovePoint(em, b)]

\* lines 1511-1513: the point is removed from a copy of the stored matrix
TearCopy(em, b) == [stored |-> em, local |-> RemovePoint(em, b)]

\* lines 1514-1519: the predecessor on a shortest path that avoids the tear
\* point pred0, its own predecessor if its new coordinate is zero, pred0 if
\* that one's is zero as well
Reroute(local, idx, pred0, xs) ==
    {LET p1 == r[idx]
     IN  IF ~ InRange(p1) THEN p1
         ELSE IF xs[PyIndex(p1)] # 0 THEN p1
         ELSE LET p2 == r[PyIndex(p1)]
              IN  IF ~ InRange(p2) THEN p2
                  ELSE IF xs[PyIndex(p2)] = 0 THEN pred0 ELSE p2
     : r \in PredRows(local, self_p_idx, dijkstra(local, self_p_idx))}

\* lines 1503-1519: the values pred can have at line 1525
ProjPreds(idx, pred0) ==
    IF pred0 \in tear_points
    THEN Reroute(TearCopy(edge_matrix, pred0).local, idx, pred0, new_coords)
    ELSE {pred0}

\* what lines 1507-1519 leave in self.edge_matrix and in d
AfterReroute(pred0) ==
    /\ edge_matrix' = IF pred0 \in tear_points
                      THEN TearCopy(edge_matrix, pred0).stored
                      ELSE edge_matrix
    /\ d' = IF pred0 \in tear_points THEN d + 1 ELSE d

\* lines 1478-1485 on an instance without p_idx (normal_coords does not store
\* it): new_coords is zeroed, then self.p_idx raises AttributeError
NewProjNoBase ==
    /\ pc \in {"returned", "raised"}
    /\ self_p_idx = NoAttr
    /\ \E r \in TearRatios, kk \in 0 .. MaxK0 :
          /\ tear_a' = r
          /\ k0' = kk
          /\ tear_points' = find_tear_points(r)
    /\ new_coords' = [i \in Pts |-> 0]
    /\ computed_points' = [i \in Pts |-> FALSE]
    /\ pc' = "proj_raised"
    /\ exc' = AttributeError
    /\ UNCHANGED <<bndVars, quoVars, graphVars, coords, self_p_idx, buildVars, variant, p_idx, p_dist,
                   predecessors, edge, sorted_inds, loop_i, writes, d, ret>>

\* lines 1478-1494: the call, up to the processing order
NewProjCall ==
    /\ pc \in {"returned", "raised"}
    /\ self_p_idx # NoAttr
    /\ \E r \in TearRatios, kk \in 0 .. MaxK0 :
          /\ tear_a' = r
          /\ k0' = kk
          /\ tear_points' = find_tear_points(r)
    /\ new_coords' = [i \in Pts |-> IF i \in edges[self_p_idx] THEN coords[i] ELSE 0]
    /\ computed_points' = [i \in Pts |-> i = self_p_idx \/ i \in edges[self_p_idx]]
    /\ p_dist' = dijkstra(edge_matrix, self_p_idx)
    /\ predecessors' \in PredRows(edge_matrix, self_p_idx, p_dist')
    /\ sorted_inds' \in SortedInds(p_dist')
    /\ loop_i' = 1
    /\ d' = 0
    /\ pc' = "proj_loop"
    /\ UNCHANGED <<bndVars, quoVars, graphVars, coords, self_p_idx, buildVars, variant, p_idx, edge,
                   writes, ret, exc>>

\* lines 1498-1500
ProjSkip ==
    /\ pc = "proj_loop"
    /\ loop_i <= n
    /\ computed_points[sorted_inds[loop_i]]
    /\ loop_i' = loop_i + 1
    /\ UNCHANGED <<bndVars, quoVars, pc, instVars, buildVars, variant, k0, p_idx, p_dist, predecessors,
                   computed_points, edge, sorted_inds, writes, projVars, ret, exc>>

\* lines 1505, 1516, 1518, 1525: an index of -9999 with fewer than 9999 points
ProjIndexError ==
    /\ pc = "proj_loop"
    /\ loop_i <= n
    /\ LET idx   == sorted_inds[loop_i]
           pred0 == predecessors[idx]
       IN  /\ ~ computed_points[idx]
           /\ \/ ~ InRange(pred0)
              \/ \E pred \in ProjPreds(idx, pred0) : ~ InRange(pred)
           /\ AfterReroute(pred0)
    /\ pc' = "proj_raised"
    /\ exc' = IndexError
    /\ UNCHANGED <<bndVars, quoVars, n, pointcloud, edges, dim, coords, self_p_idx, new_coords, buildVars,
                   solveVars, tear_a, tear_points, ret>>

\* lines 1502-1560: the solver is handed nan or inf and raises
ProjSolveFails ==
    /\ pc = "proj_loop"
    /\ loop_i <= n
    /\ LET idx   == sorted_inds[loop_i]
           pred0 == predecessors[idx]
       IN  /\ ~ computed_points[idx]
           /\ InRange(pred0)
           /\ \E pred \in ProjPreds(idx, pred0) :
                 /\ InRange(pred)
                 /\ \E refs \in ReferencePoints(PyIndex(pred), pred, k0,
                                               dijkstra(edge_matrix, idx),
                                               computed_points, tear_points) :
                       BadCoefficients(pointcloud, refs, PyIndex(pred),
                                       Dist(pointcloud, idx, PyIndex(pred0)), new_coords)
           /\ AfterReroute(pred0)
    /\ pc' = "proj_raised"
    /\ exc' = GurobiError
    /\ UNCHANGED <<bndVars, quoVars, n, pointcloud, edges, dim, coords, self_p_idx, new_coords, buildVars,
                   solveVars, tear_a, tear_points, ret>>

\* lines 1502-1563: the point idx gets its new coordinate, at the distance
\* alpha = ||q - pointcloud[pred0]|| of new_coords[pred]
ProjPlace ==
    /\ pc = "proj_loop"
    /\ loop_i <= n
    /\ LET idx   == sorted_inds[loop_i]
           pred0 == predecessors[idx]
       IN  /\ ~ computed_points[idx]
           /\ InRange(pred0)
           /\ \E pred \in ProjPreds(idx, pred0) :
                 /\ InRange(pred)
                 /\ \E refs \in ReferencePoints(PyIndex(pred), pred, k0,
                                               dijkstra(edge_matrix, idx),
                                               computed_points, tear_points) :
                       /\ ~ BadCoefficients(pointcloud, refs, PyIndex(pred),
                                            Dist(pointcloud, idx, PyIndex(pred0)), new_coords)
                       /\ \E x \in Minimisers(pointcloud, refs, PyIndex(pred), idx,
                                               Dist(pointcloud, idx, PyIndex(pred0)),
                                               new_coords) :
                             new_coords' = [new_coords EXCEPT
                                               ![idx] = Add(x, new_coords[PyIndex(pred)])]
           /\ AfterReroute(pred0)
           /\ computed_points' = [computed_points EXCEPT ![idx] = TRUE]
    /\ loop_i' = loop_i + 1
    /\ UNCHANGED <<bndVars, quoVars, pc, n, pointcloud, edges, dim, coords, self_p_idx, buildVars, variant,
                   k0, p_idx, p_dist, predecessors, edge, sorted_inds, writes, tear_a,
                   tear_points, ret, exc>>

\* line 1567: return self.p_idx
ProjReturns ==
    /\ pc = "proj_loop"
    /\ loop_i = n + 1
    /\ pc' = "proj_returned"
    /\ ret' = self_p_idx
    /\ UNCHANGED <<bndVars, quoVars, instVars, buildVars, solveVars, projVars, exc>>

NextProj ==
    \/ NewProjNoBase
    \/ NewProjCall
    \/ ProjSkip
    \/ ProjIndexError
    \/ ProjSolveFails
    \/ ProjPlace
    \/ ProjReturns

NextCoords == NextSolve \/ NextProj

SpecCoords == InitCoords /\ [][NextCoords]_vars

\* the states in which the locals of a solver call are bound
InSolver == pc \in {"tangent", "loop", "returned", "raised", "alpha_shape"}

\* every point has a path from the base point
Connected == Cardinality(DOMAIN p_dist) = n

\* C2: within one normal_coords run the coordinate of every point other than
\* the base point (which stays at the origin it was initialised to) is assigned
\* at most once, a point's computed flag is set exactly when that assignment
\* has happened, so a flagged point is never written again, and when the call
\* returns every point's flag is set.
PlacedOnce ==
    InSolver =>
        /\ \A i \in Pts : writes[i] <= 1
        /\ writes[p_idx] = 0
        /\ \A i \in Pts : computed_points[i] <=> (i = p_idx \/ writes[i] = 1)
        /\ pc = "returned" => \A i \in Pts : computed_points[i]

\* a run has returned after the loop placed a point outside the first ring
PlacedOnceWitness ==
    /\ pc = "returned"
    /\ \E i \in Pts : i # p_idx /\ ~ edge[i] /\ writes[i] = 1 /\ coords[i] # NaN

\* C3: on a connected graph, the points are taken in nondecreasing geodesic
\* distance from the base point, and when a point that is not placed yet is
\* taken (a point outside the first ring), its shortest-path predecessor is a
\* point that is placed already.
PredecessorPlacedFirst ==
    (pc = "loop" /\ loop_i <= n /\ Connected) =>
        LET idx == sorted_inds[loop_i]
        IN  /\ \A j \in 1 .. (loop_i - 1) : p_dist[sorted_inds[j]] <= p_dist[idx]
            /\ ~ computed_points[idx] =>
                  /\ predecessors[idx] \in Pts
                  /\ computed_points[predecessors[idx]]

\* the loop is about to place a point outside the first ring of a connected
\* graph, whose predecessor is a point of the first ring
PredecessorPlacedFirstWitness ==
    /\ pc = "loop"
    /\ loop_i <= n
    /\ Connected
    /\ ~ computed_points[sorted_inds[loop_i]]
    /\ edge[predecessors[sorted_inds[loop_i]]]

\* C4: when normal_coords returns on a connected graph, every point q other
\* than the base point lies, in the coordinates, at exactly the Euclidean
\* length of the edge from its shortest-path predecessor b: |q' - b'| =
\* ||q - b||, for the first ring (b is the base point) as for the others.
EdgeLengthKept ==
    (pc = "returned" /\ Connected) =>
        \A q \in Pts \ {p_idx} :
            LET b == predecessors[q]
            IN  /\ coords[q] # NaN
                /\ coords[b] # NaN
                /\ Abs(coords[q] - coords[b]) = Dist(pointcloud, q, b)

\* C6: after a per-point solve failed inside a coordinate solver, no later
\* operation takes the coordinates with the zero of a point that was never
\* placed in them: compute_quotient_edges does not pass its guard.
NoStaleZeroAccepted ==
    ~ (/\ pc = "alpha_shape"
       /\ exc = GurobiError
       /\ \E i \in Pts : ~ computed_points[i] /\ coords[i] = 0)


\* C7: new_proj leaves the first assignment (coords), the neighbour lists
\* (edges) and the stored graph (edge_matrix) as they are, in every step from
\* its call on, also in a step that removes a tear point from the graph for
\* path-finding; of the instance's fields it writes new_coords only.
NewProjKeepsFirstAssignment ==
    [][((pc \in {"returned", "raised"} /\ pc' \in {"proj_loop", "proj_raised"})
          \/ pc = "proj_loop")
       => /\ coords' = coords
          /\ edges' = edges
          /\ edge_matrix' = edge_matrix
          /\ pointcloud' = pointcloud
          /\ dim' = dim
          /\ self_p_idx' = self_p_idx]_vars

\* new_proj has removed a tear point from a copy of the graph (the step that
\* counts d), the stored graph still holds that point's edges, and the second
\* assignment differs from the first
NewProjKeepsFirstAssignmentWitness ==
    /\ pc = "proj_raised"
    /\ exc # AttributeError
    /\ d > 0
    /\ \E b \in tear_points : DOMAIN edge_matrix[b] # {}
    /\ new_coords # coords

-----------------------------------------------------------------------------
(* normal_coords on a graph that is not connected *)

BigN == 10000      \* number of points of the large cloud

\* points on a line, at 0, 1, 3, 4, 6, 7, ...: gaps of 1 and 2 in turn
LineCloud(m) == [i \in 0 .. (m - 1) |-> <<3 * (i \div 2) + (i % 2), 0>>]

\* the nearest point of i in a cloud listed along a line
NearestOnLine(cloud, m, i) ==
    IF i = 0 THEN 1
    ELSE IF i = m - 1 THEN m - 2
    ELSE IF Dist(cloud, i, i - 1) <= Dist(cloud, i, i + 1) THEN i - 1 ELSE i + 1

\* the neighbour lists build_simplex leaves with k = 1: every point is joined
\* to its nearest point
NearestGraph(cloud, m) ==
    [i \in 0 .. (m - 1) |->
        {j \in {i - 1, i + 1} \cap (0 .. (m - 1)) :
            NearestOnLine(cloud, m, i) = j \/ NearestOnLine(cloud, m, j) = i}]

\* build_simplex(LineCloud(n), k=1) has returned: the graph is a set of
\* separate pairs
InitDisc ==
    /\ pc = "built"
    /\ n \in {NPts, BigN}
    /\ pointcloud = LineCloud(n)
    /\ edges = NearestGraph(pointcloud, n)
    /\ edge_matrix = [i \in Pts |-> [j \in edges[i] |-> Dist(pointcloud, i, j)]]
    /\ dim = 1
    /\ coords = NoCoords
    /\ self_p_idx = NoAttr
    /\ new_coords = NoCoords
    /\ k = NoFrame
    /\ edge_sen = NoFrame
    /\ build_i = NoFrame
    /\ NoSolveFrame
    /\ NoBoundaryFrame
    /\ NoQuotientFrame
    /\ ret = None
    /\ exc = ""

SpecDisc == InitDisc /\ [][NextSolve]_vars

\* C5: when the neighbour graph is not connected, normal_coords fails with an
\* error, for every graph size: it does not return, and it places no point
\* that no path from the base point reaches.
DisconnectedFails ==
    (InSolver /\ ~ Connected) =>
        /\ pc # "returned"
        /\ \A i \in Pts : computed_points[i] => i \in DOMAIN p_dist

-----------------------------------------------------------------------------
(* find_orientation and clean_boundary: the ordered boundary *)

OrientNodes == 4   \* number of points under an arbitrary edge set
MaxEdges == 4      \* most edges of an arbitrary edge set
NNodes == 5        \* number of points of a ring that clean_boundary cleans
MaxLinks == 3      \* most pairs of neighbours among the points of a ring
MaxTol == 4        \* largest tol

Unread == "unread" \* a field the boundary functions do not read

\* a Python list or array, indexed from 0, of the entries of a sequence
ZeroBased(seq) == [i \in 0 .. (Len(seq) - 1) |-> seq[i + 1]]

Size(f) == Cardinality(DOMAIN f)

\* the directed edges (i, j), i # j, between the points
DirectedEdges == {e \in Pts \X Pts : e[1] # e[2]}

\* line 244: list(edges), the edges in any order
ListOrders(E) ==
    {f \in [0 .. (Cardinality(E) - 1) -> E] : \A i, j \in DOMAIN f : f[i] = f[j] => i = j}

\* the targets of the edges that leave v
Out(E, v) == {e[2] : e \in {x \in E : x[1] = v}}

\* the points a walk from v reaches in at most steps steps
RECURSIVE Orbit(_, _, _)
Orbit(E, v, steps) ==
    IF steps = 0 THEN {v}
    ELSE {v} \cup UNION {Orbit(E, w, steps - 1) : w \in Out(E, v)}

\* E is a single directed 1-cycle: one edge leaves and one edge enters every
\* point of E, and a walk from one point passes all of them
SingleCycle(E) ==
    /\ E # {}
    /\ \A e \in E :
          /\ Cardinality({x \in E : x[1] = e[1]}) = 1
          /\ Cardinality({x \in E : x[2] = e[1]}) = 1
          /\ Cardinality({x \in E : x[1] = e[2]}) = 1
    /\ \A e \in E : Cardinality(Orbit(E, e[1], Cardinality(E))) = Cardinality(E)

\* lines 247-250: the edges appended in the steps that are left; IndexError
\* when no edge of the list starts at point
RECURSIVE Walk(_, _, _)
Walk(list, point, steps) ==
    IF steps = 0 THEN [raised |-> FALSE, walk |-> <<>>]
    ELSE LET starts == {i \in DOMAIN list : list[i][1] = point}
         IN  IF starts = {} THEN [raised |-> TRUE, walk |-> <<>>]
             ELSE LET edge_idx == SetMin(starts)       \* np.where(...)[0][0]
                      rest     == Walk(list, list[edge_idx][2], steps - 1)
                  IN  [raised |-> rest.raised,
                       walk   |-> <<list[edge_idx]>> \o rest.walk]

\* find_orientation(edges), start_point = None: n_edges[0, 0] raises
\* IndexError on an empty list
find_orientation(list) ==
    IF Size(list) = 0 THEN [raised |-> TRUE, walk |-> <<>>]
    ELSE Walk(list, list[0][1], Size(list))

\* line 301: len(np.unique(orientation[:, 0])) != len(boundary_edges)
NotACycle(o, E) == Cardinality({o[i][1] : i \in DOMAIN o}) # Cardinality(E)

\* line 305: orientation[:, 0], the points in their order
Nodes(o) == [i \in DOMAIN o |-> o[i][1]]

\* line 309: order[node], the place of a point in the orientation
Order(o, node) == CHOOSE i \in DOMAIN o : o[i][1] = node

\* lines 333-339: the flags after the points that node_idx sees before its
\* furthest neighbour among test_nodes are dropped
DropBefore(o, incl, node_idx, visible, inter) ==
    LET m        == Size(o)
        furthest == CHOOSE x \in inter :
                       \A y \in inter :
                          (Order(o, y) - node_idx) % m <= (Order(o, x) - node_idx) % m
        upto     == CHOOSE t \in DOMAIN visible : visible[t] = furthest
        deleted  == {Order(o, visible[t]) : t \in 1 .. (upto - 1)}
    IN  [i \in DOMAIN incl |-> incl[i] /\ i \notin deleted]

\* lines 320-340: the inner loop from offset i on; visible is visible_nodes
RECURSIVE Scan(_, _, _, _, _, _, _)
Scan(o, incl, tl, node_idx, i, visible, found) ==
    LET m == Size(o)
        j == (node_idx + i) % m
    IN  IF i > m - 1 THEN [included |-> incl, found |-> found]
        ELSE IF ~ incl[j] THEN Scan(o, incl, tl, node_idx, i + 1, visible, found)
        ELSE LET seen == Append(visible, o[j][1])
             IN  IF Len(seen) = tl THEN [included |-> incl, found |-> found]
                 ELSE LET test_nodes   == Range(Tail(seen))
                          local_edges  == edges[o[node_idx][1]]
                          intersection == test_nodes \cap local_edges
                      IN  IF intersection # {}
                          THEN Scan(o, DropBefore(o, incl, node_idx, seen, intersection),
                                    tl, node_idx, i + 1, seen, TRUE)
                          ELSE Scan(o, incl, tl, node_idx, i + 1, seen, found)

\* lines 315-340: the for loop over node_idx, from node_idx on
RECURSIVE Pass(_, _, _, _, _)
Pass(o, incl, tl, node_idx, found) ==
    IF node_idx > Size(o) - 1 THEN [included |-> incl, found |-> found]
    ELSE IF ~ incl[node_idx] THEN Pass(o, incl, tl, node_idx + 1, found)
    ELSE LET r == Scan(o, incl, tl, node_idx, 1, <<>>, found)
         IN  Pass(o, r.included, tl, node_idx + 1, r.found)

\* a mutant of KeepLooping: the loop stops after its first pass
StopAfterOnePass(found) == FALSE

\* a mutant of KeepLooping: every pass is followed by another
AlwaysLoop(found) == TRUE

\* lines 312-313, 340: another pass follows a pass that dropped a point
KeepLooping(found) == found

\* lines 243-252: every step found an edge; return np.asarray(orientation)
FindOrientation ==
    /\ pc = "find_orientation"
    /\ ~ find_orientation(n_edges).raised
    /\ orientation' = ZeroBased(find_orientation(n_edges).walk)
    /\ pc' = "clean_boundary"
    /\ UNCHANGED <<instVars, buildVars, solveVars, projVars, quoVars, boundary_edges, n_edges, tol,
                   included, keep_looping, clean_run, dropped, passes, ret, exc>>

\* lines 245, 248: no first edge, or no edge that starts at point
FindOrientationFails ==
    /\ pc = "find_orientation"
    /\ find_orientation(n_edges).raised
    /\ pc' = "orientation_raised"
    /\ exc' = IndexError
    /\ UNCHANGED <<instVars, buildVars, solveVars, projVars, quoVars, bndVars, ret>>

\* lines 301-303: return -1
CleanRejects ==
    /\ pc = "clean_boundary"
    /\ NotACycle(orientation, boundary_edges)
    /\ pc' = "rejected"
    /\ ret' = -1
    /\ UNCHANGED <<instVars, buildVars, solveVars, projVars, quoVars, bndVars, exc>>

\* lines 301-311: the orientation passes the test
CleanAccepts ==
    /\ pc = "clean_boundary"
    /\ ~ NotACycle(orientation, boundary_edges)
    /\ pc' = "clean_loop"
    /\ included' = [i \in DOMAIN orientation |-> TRUE]
    /\ keep_looping' = TRUE
    /\ passes' = 0
    /\ UNCHANGED <<instVars, buildVars, solveVars, projVars, quoVars, boundary_edges, n_edges,
                   orientation, tol, clean_run, dropped, ret, exc>>

\* lines 312-340: one pass of the while loop
CleanPass ==
    /\ pc = "clean_loop"
    /\ keep_looping
    /\ LET r == Pass(orientation, included, tol, 0, FALSE)
       IN  /\ included' = r.included
           /\ keep_looping' = KeepLooping(r.found)
    /\ passes' = passes + 1
    /\ UNCHANGED <<pc, instVars, buildVars, solveVars, projVars, quoVars, boundary_edges, n_edges,
                   orientation, tol, clean_run, dropped, ret, exc>>

\* line 342: return included
CleanReturns ==
    /\ pc = "clean_loop"
    /\ ~ keep_looping
    /\ pc' = "cleaned"
    /\ ret' = included
    /\ UNCHANGED <<instVars, buildVars, solveVars, projVars, quoVars, bndVars, exc>>

\* the cycle through the points of kept, in their order, as edges
CycleOf(kept) ==
    [i \in DOMAIN kept |-> <<kept[i], kept[(i + 1) % Size(kept)]>>]

\* a list from its entry at first on, the entries before it at the end
Rotate(list, first) ==
    [i \in DOMAIN list |-> list[(i + first) % Size(list)]]

\* clean_boundary is called again, with the same S and tol, on the cycle of the
\* points it kept (orientation[:, 0][included]), walked from any of them
CleanAgain ==
    /\ pc = "cleaned"
    /\ clean_run = 1
    /\ LET nodes == Nodes(orientation)
           kept  == ZeroBased(FilterSeq([i \in 1 .. Size(nodes) |-> nodes[i - 1]],
                                        [i \in 1 .. Size(nodes) |-> included[i - 1]]))
       IN  /\ \E first \in DOMAIN kept : orientation' = CycleOf(Rotate(kept, first))
           /\ boundary_edges' = Range(CycleOf(kept))
           /\ dropped' = {nodes[i] : i \in {j \in DOMAIN nodes : ~ included[j]}}
    /\ clean_run' = 2
    /\ pc' = "clean_boundary"
    /\ UNCHANGED <<instVars, buildVars, solveVars, projVars, quoVars, n_edges, tol, included,
                   keep_looping, passes, ret, exc>>

NextBoundary ==
    \/ FindOrientation
    \/ FindOrientationFails
    \/ CleanRejects
    \/ CleanAccepts
    \/ CleanPass
    \/ CleanReturns
    \/ CleanAgain

\* the neighbour lists of the graph with the links L (C1: neighbours are mutual)
GraphOf(L) == [a \in Pts |-> {b \in Pts : <<a, b>> \in L \/ <<b, a>> \in L}]

\* the neighbour lists, as far as they hold boundary points, with at most
\* MaxLinks pairs of neighbours
SymmetricGraphs ==
    {GraphOf(L) : L \in {X \in SUBSET {e \in Pts \X Pts : e[1] < e[2]} :
                             Cardinality(X) <= MaxLinks}}

\* every two points are neighbours
CompleteGraph == [a \in Pts |-> Pts \ {a}]

\* an instance with a planar placement, after alpha_shape returned its edges
\* (line 1641); find_orientation and clean_boundary read S.edges only
BoundaryInstance ==
    /\ pointcloud = Unread
    /\ edge_matrix = Unread
    /\ dim = 2
    /\ coords = Unread
    /\ self_p_idx = NoAttr
    /\ new_coords = NoCoords
    /\ k = NoFrame
    /\ edge_sen = NoFrame
    /\ build_i = NoFrame
    /\ NoSolveFrame
    /\ NoQuotientFrame
    /\ orientation = NoFrame
    /\ included = NoFrame
    /\ keep_looping = NoFrame
    /\ clean_run = 1
    /\ dropped = {}
    /\ passes = NoFrame
    /\ ret = None
    /\ exc = ""

\* find_orientation is handed any set of at most MaxEdges directed edges
InitOrientation ==
    /\ pc = "find_orientation"
    /\ n = OrientNodes
    /\ BoundaryInstance
    /\ edges = CompleteGraph
    /\ tol = MaxTol
    /\ boundary_edges \in {E \in SUBSET DirectedEdges : Cardinality(E) <= MaxEdges}
    /\ n_edges \in ListOrders(boundary_edges)

SpecOrientation == InitOrientation /\ [][NextBoundary]_vars

\* the cycle through all points in index order, the cycle without its last
\* edge, and two separate cycles
RingLists ==
    LET m == NNodes
    IN  { [i \in 0 .. (m - 1) |-> <<i, (i + 1) % m>>],
          [i \in 0 .. (m - 2) |-> <<i, i + 1>>],
          [i \in 0 .. (m - 1) |-> IF i < 2 THEN <<i, 1 - i>>
                                  ELSE <<i, IF i = m - 1 THEN 2 ELSE i + 1>>] }

\* clean_boundary runs on a ring of all points, for every symmetric graph and
\* every tol from 2 on
InitClean ==
    /\ pc = "find_orientation"
    /\ n = NNodes
    /\ BoundaryInstance
    /\ edges \in SymmetricGraphs
    /\ tol \in 2 .. MaxTol
    /\ \E list \in RingLists, first \in 0 .. (NNodes - 1) :
          /\ first \in DOMAIN list
          /\ n_edges = Rotate(list, first)
          /\ boundary_edges = Range(list)

SpecClean == InitClean /\ [][NextBoundary]_vars

\* the first boundary extraction has gone past the test of clean_boundary
Extracted == clean_run = 1 /\ pc \in {"clean_loop", "cleaned"}

\* consecutive entries share a point, the last with the first, and every edge
\* of E is one entry
ClosedWalk(o, E) ==
    /\ Size(o) = Cardinality(E)
    /\ Range(o) = E
    /\ \A i \in DOMAIN o : o[i][2] = o[(i + 1) % Size(o)][1]

CleanIsIdempotent ==
    clean_run = 2 =>
        /\ pc # "rejected"
        /\ pc = "cleaned" => \A i \in DOMAIN included : included[i]

\* a second run has returned on the cycle that is left after the first run
\* dropped a point
CleanIsIdempotentWitness ==
    /\ clean_run = 2
    /\ pc = "cleaned"
    /\ dropped # {}

-----------------------------------------------------------------------------
(* intersection ... assemble_quotient: the quotient of the cleaned boundary *)

MaxSide == 3       \* most points on a glued side of a rectangle
MaxFree == 3       \* most points on a free side of a rectangle
MaxQTol == 3       \* largest connection_tol, quotient_tol and tol1

TypeError == "TypeError"

\* list[i] of a Python list that is held as a sequence
At(list, i) == list[i + 1]

\* [i % m for i in range(lo, hi)]
PyRange(lo, hi, m) == [t \in 1 .. (hi - lo) |-> (lo + t - 1) % m]

\* np.where(list == x)[0][0]
IndexOf(list, x) == SetMin({t \in DOMAIN list : list[t] = x}) - 1

\* np.sort
RECURSIVE NpSort(_)
NpSort(s) ==
    IF s = <<>> THEN <<>>
    ELSE LET t == CHOOSE u \in DOMAIN s : \A v \in DOMAIN s : s[u] <= s[v]
         IN  <<s[t]>> \o NpSort([u \in 1 .. (Len(s) - 1) |-> IF u < t THEN s[u] ELSE s[u + 1]])

\* the lists of one sequence of lists, joined
RECURSIVE Join(_)
Join(ss) == IF ss = <<>> THEN <<>> ELSE Head(ss) \o Join(Tail(ss))

\* line 293
orientation_dist(current_idx, short_node_idx, m) ==
    LET x == (current_idx - short_node_idx) % m
        y == (short_node_idx - current_idx) % m
    IN  IF x < y THEN x ELSE y

\* a mutant of ShortConnections: the neighbours off the cleaned cycle count
ShortConnectionsAnyPoint(co, ctol) ==
    [t \in DOMAIN co |->
        edges[co[t]] \ {At(co, (t - 1 + j) % Len(co)) : j \in (0 - ctol) .. ctol}]

\* a mutant of ShortConnections: the window is the two places next to a place
\* (line 371)
ShortConnectionsNextOnly(co, ctol) ==
    [t \in DOMAIN co |->
        (edges[co[t]] \ {At(co, (t - 1 + j) % Len(co)) : j \in {-1, 1}}) \cap Range(co)]

\* lines 369-378: short_connections, as sets
ShortConnections(co, ctol) ==
    [t \in DOMAIN co |->
        LET neighbour_edges == {At(co, (t - 1 + j) % Len(co)) : j \in (0 - ctol) .. ctol}
        IN  (edges[co[t]] \ neighbour_edges) \cap Range(co)]

\* lines 375-376: short_idxs
ShortIdxs(sc) == Ascending({t - 1 : t \in {u \in DOMAIN sc : sc[u] # {}}})

\* lines 410-422: the loop over short_idxs[1:] + [short_idxs[0] + n], from its
\* t-th entry on
RECURSIVE IdentifyLoop(_, _, _, _, _)
IdentifyLoop(m, qtol, targets, t, st) ==
    IF t > Len(targets) THEN st
    ELSE LET short_idx == targets[t]
             diff      == short_idx - st.current_idx
             gap       == PyRange(st.current_idx, short_idx + 1, m)
         IN  IdentifyLoop(m, qtol, targets, t + 1,
                IF diff <= qtol
                THEN [st EXCEPT !.short = TRUE, !.current_idx = short_idx]
                ELSE [base            |-> short_idx,
                      current_idx     |-> short_idx,
                      short           |-> FALSE,
                      short_edges     |-> IF st.short
                                          THEN Append(st.short_edges,
                                                      PyRange(st.base, st.current_idx + 1, m))
                                          ELSE st.short_edges,
                      non_short_edges |-> Append(st.non_short_edges, gap)])

\* identify_edges(n, short_idxs, quotient_tol), lines 405-438
identify_edges(m, idxs, qtol) ==
    LET st == IdentifyLoop(m, qtol, Tail(idxs) \o <<idxs[1] + m>>, 1,
                  [base |-> idxs[1], current_idx |-> idxs[1], short |-> FALSE,
                   short_edges |-> <<>>, non_short_edges |-> <<>>])
        first_short == IF st.short_edges = <<>> THEN FALSE
                       ELSE idxs[1] \in Range(st.short_edges[1])
    IN  IF st.non_short_edges = <<>>
        THEN [short_edges     |-> Append(st.short_edges, PyRange(0, m, m)),
              non_short_edges |-> st.non_short_edges]
        ELSE IF st.short /\ first_short
        THEN [short_edges     |-> [st.short_edges EXCEPT
                                      ![1] = PyRange(st.base, idxs[1] + m, m) \o @],
              non_short_edges |-> st.non_short_edges]
        ELSE IF st.short
        THEN [short_edges     |-> Append(st.short_edges,
                                         PyRange(st.base, idxs[1] + m + 1, m)),
              non_short_edges |-> st.non_short_edges]
        ELSE [short_edges |-> st.short_edges, non_short_edges |-> st.non_short_edges]

\* lines 486-490: chosen_points, from the t-th self connection on
RECURSIVE ChosenPoints(_, _, _, _, _, _)
ChosenPoints(short_edge, node_idx, idxs, t, current_idx, tl1) ==
    IF t > Len(idxs) THEN <<>>
    ELSE LET short_node_idx == idxs[t]
             m    == Len(clean_orientation)
             rest == ChosenPoints(short_edge, node_idx, idxs, t + 1, short_node_idx, tl1)
         IN  IF /\ orientation_dist(node_idx, short_node_idx, m) > tl1
                /\ orientation_dist(current_idx, short_node_idx, m) > tl1
             THEN <<IndexOf(short_edge, short_node_idx)>> \o rest
             ELSE rest

\* lines 476-495: the loop over the points of a short edge, from the idx-th on
RECURSIVE RefineScan(_, _, _, _, _)
RefineScan(short_edge, sc, tl1, idx, st) ==
    IF idx > Len(short_edge) - 1 THEN st
    ELSE LET co               == clean_orientation
             node_idx         == IndexOf(co, At(co, At(short_edge, idx)))
             set_short_edge   == {At(co, short_edge[t]) : t \in DOMAIN short_edge}
             self_connections == set_short_edge \cap At(sc, node_idx)
             idxs             == Ascending({IndexOf(co, x) : x \in self_connections})
             chosen_points    == ChosenPoints(short_edge, node_idx, idxs, 1, node_idx, tl1)
         IN  RefineScan(short_edge, sc, tl1, idx + 1,
                IF Cardinality(self_connections) <= st.max_self_connections THEN st
                ELSE IF Len(chosen_points) > st.max_self_connections
                THEN [refine |-> TRUE, idxs |-> chosen_points, node |-> idx,
                      max_self_connections |-> Len(chosen_points)]
                ELSE st)

\* a mutant of RefineOne: no short edge is split
Unrefined(short_edge, sc, tl1) == <<short_edge>>

\* lines 469-504: the lists a short edge is split into
RefineOne(short_edge, sc, tl1) ==
    LET m  == Len(clean_orientation)
        st == RefineScan(short_edge, sc, tl1, 0,
                  [refine |-> FALSE, idxs |-> <<>>, node |-> 0, max_self_connections |-> 0])
        sorted == NpSort(Append(st.idxs, st.node))
        splitting_points == IF Len(short_edge) = m THEN Append(sorted, sorted[1] + m)
                            ELSE sorted
    IN  IF st.refine
        THEN [t \in 1 .. (Len(splitting_points) - 1) |->
                 LET slice_range == PyRange(splitting_points[t], splitting_points[t + 1] + 1, m)
                 IN  [u \in DOMAIN slice_range |-> At(short_edge, slice_range[u])]]
        ELSE <<short_edge>>

\* refine_edges(short_edges, tol1, clean_orientation, short_connections)
refine_edges(ses, sc, tl1) == Join([e \in DOMAIN ses |-> RefineOne(ses[e], sc, tl1)])

\* lines 533-537: the short-circuit neighbours of all points of a short edge
EdgeConnections(short_edge, sc) == UNION {At(sc, short_edge[t]) : t \in DOMAIN short_edge}

\* a mutant of ConnectedEdge: the first short edge that holds any of them
FirstTouchedEdge(ses, sc, idx) ==
    LET co == clean_orientation
        touched == {e \in DOMAIN ses :
                       EdgeConnections(At(ses, idx), sc)
                       \cap {At(co, ses[e][t]) : t \in DOMAIN ses[e]} # {}}
    IN  IF touched = {} THEN 0 ELSE SetMin(touched) - 1

\* lines 540-545: np.argmax(short_count), the first short edge that holds most
\* of them
ConnectedEdge(ses, sc, idx) ==
    LET co == clean_orientation
        short_count == [e \in DOMAIN ses |->
            Cardinality(EdgeConnections(At(ses, idx), sc)
                        \cap {At(co, ses[e][t]) : t \in DOMAIN ses[e]})]
    IN  SetMin({e \in DOMAIN ses : \A f \in DOMAIN ses : short_count[f] <= short_count[e]}) - 1

\* lines 551-558: a single gluing is dropped if its edge is glued to another
Allowed(pair, glued) ==
    ~ (Cardinality(pair) = 1 /\ \E pair1 \in glued : pair \subseteq pair1 /\ Cardinality(pair1) # 1)

\* list(a set): its elements in any order
Listings(E) ==
    {f \in [1 .. Cardinality(E) -> E] : \A i, j \in DOMAIN f : f[i] = f[j] => i = j}

\* a mutant of GluedSets: every short edge is glued to itself
GluedToItself(ses, sc) == {{e - 1} : e \in DOMAIN ses}

\* lines 538-546: the set of frozensets
GluedSets(ses, sc) == {{e - 1, ConnectedEdge(ses, sc, e - 1)} : e \in DOMAIN ses}

\* connect_edges(short_edges, clean_orientation, short_connections): the lists
\* it can return; a set is listed in any order (lines 548, 551)
connect_edges(ses, sc) ==
    LET glued == GluedSets(ses, sc)
        kept  == {pair \in glued : Allowed(pair, glued)}
    IN  UNION {{h \in [1 .. Cardinality(kept) -> UNION {Listings(x) : x \in kept}] :
                   \A t \in DOMAIN h : h[t] \in Listings(f[t])}
               : f \in Listings(kept)}

\* find_connection_order, lines 586-594: the places in compared_short_edge of
\* the neighbours of node, none if the set is empty
ConnectionOrders(node, compared_short_edge, sc) ==
    {IndexOf(compared_short_edge, x) :
        x \in At(sc, IndexOf(clean_orientation, node)) \cap Range(compared_short_edge)}

\* lines 639-653: the loop over the points of short_edge, from the t-th on
RECURSIVE CountOrders(_, _, _, _, _)
CountOrders(short_edge, compared_short_edge, sc, t, st) ==
    IF t > Len(short_edge) THEN st
    ELSE LET orders == ConnectionOrders(short_edge[t], compared_short_edge, sc)
         IN  CountOrders(short_edge, compared_short_edge, sc, t + 1,
                IF orders = {} THEN st
                ELSE [start       |-> FALSE,
                      current_max |-> SetMax(orders),
                      current_min |-> SetMin(orders),
                      reverse     |-> IF ~ st.start /\ SetMax(orders) >= st.current_min
                                      THEN st.reverse + 1 ELSE st.reverse,
                      same        |-> IF ~ st.start /\ SetMin(orders) <= st.current_max
                                      THEN st.same + 1 ELSE st.same])

\* a mutant of SameOrientation: every glued pair is flagged same orientation
AlwaysSame(idxs, ses, sc) == TRUE

\* lines 629-658: the flag of one glued pair
SameOrientation(idxs, ses, sc) ==
    LET co == clean_orientation
        short_edge          == [t \in DOMAIN At(ses, At(idxs, 0)) |->
                                   At(co, At(ses, At(idxs, 0))[t])]
        compared_short_edge == [t \in DOMAIN At(ses, At(idxs, 1)) |->
                                   At(co, At(ses, At(idxs, 1))[t])]
        st == CountOrders(short_edge, compared_short_edge, sc, 1,
                  [start |-> TRUE, current_max |-> 0, current_min |-> 0,
                   reverse |-> 0, same |-> 0])
    IN  ~ (st.reverse > st.same)

\* gluing_orientation: -1 at the first single gluing (the pairs before it are
\* all evaluated without effect)
gluing_orientation(glued, ses, sc) ==
    IF \E t \in DOMAIN glued : Len(glued[t]) = 1
    THEN [failed |-> TRUE, flags |-> <<>>]
    ELSE [failed |-> FALSE,
          flags  |-> [t \in DOMAIN glued |-> SameOrientation(glued[t], ses, sc)]]

\* dict[key] = value
Put(dict, key, value) ==
    [x \in DOMAIN dict \cup {key} |-> IF x = key THEN value ELSE dict[x]]

\* lines 716-719: every edge glued to j takes the colour of j
RECURSIVE Recolour(_, _, _, _)
Recolour(colours, glued, j, t) ==
    IF t > Len(glued) THEN colours
    ELSE IF j \in Range(glued[t])
    THEN LET kk == IF At(glued[t], 0) # j THEN At(glued[t], 0) ELSE At(glued[t], 1)
         IN  Recolour(Put(colours, kk, colours[j]), glued, j, t + 1)
    ELSE Recolour(colours, glued, j, t + 1)

\* lines 691-728: the loop over the glued pairs, from the t-th on
RECURSIVE Assemble(_, _, _, _)
Assemble(glued, same, t, st) ==
    IF t > Len(glued) \/ st.failed THEN st
    ELSE LET i  == At(glued[t], 0)
             j  == At(glued[t], 1)
             od == st.orientation_dict
             cd == st.colour_dict
         IN  Assemble(glued, same, t + 1,
                IF i \notin DOMAIN od /\ j \notin DOMAIN od
                THEN [failed           |-> FALSE,
                      colour_count     |-> st.colour_count + 1,
                      orientation_dict |-> Put(Put(od, i, TRUE), j, ~ same[t]),
                      colour_dict      |-> Put(Put(cd, i, st.colour_count), j, st.colour_count)]
                ELSE IF i \in DOMAIN od /\ j \in DOMAIN od
                THEN IF (od[i] = od[j]) = same[t]
                     THEN [st EXCEPT !.failed = TRUE]
                     ELSE [st EXCEPT !.colour_dict = Recolour(Put(cd, j, cd[i]), glued, j, 1)]
                ELSE LET i1 == IF i \in DOMAIN od THEN i ELSE j
                         j1 == IF i \notin DOMAIN od THEN i ELSE j
                     IN  [st EXCEPT
                            !.orientation_dict = Put(od, j1, IF same[t] THEN ~ od[i1] ELSE od[i1]),
                            !.colour_dict = Put(cd, j1, cd[i1])])

\* a mutant of assemble_quotient: no gluing is found incompatible
NeverIncompatible(glued, same) ==
    [failed |-> FALSE, colour_count |-> 0,
     orientation_dict |-> [x \in UNION {Range(glued[t]) : t \in DOMAIN glued} |-> TRUE],
     colour_dict |-> [x \in UNION {Range(glued[t]) : t \in DOMAIN glued} |-> 0]]

\* assemble_quotient(glued_edges, same_orientation)
assemble_quotient(glued, same) ==
    Assemble(glued, same, 1,
             [failed |-> FALSE, colour_count |-> 0,
              orientation_dict |-> <<>>, colour_dict |-> <<>>])

\* the places of a rectangle with glued sides of a points and free sides of b
\* points: the first glued side, a free side, the second glued side, a free
\* side; the place across from a place i of the first glued side
Mirror(a, b, i) == 2 * a + b - 1 - i

\* S.edges on the boundary of the rectangle: the neighbours along the cycle
\* and, for the points of the glued sides, the point across
RectangleGraph(a, b) ==
    LET m == 2 * a + 2 * b
    IN  [x \in 0 .. (m - 1) |->
            {(x + 1) % m, (x + m - 1) % m}
            \cup (IF x < a \/ (a + b <= x /\ x < 2 * a + b) THEN {Mirror(a, b, x)} ELSE {})]

\* clean_boundary has returned the cycle of a rectangle, walked from any of
\* its points (line 1650)
InitQuotient ==
    /\ pc = "intersection"
    /\ \E a \in 1 .. MaxSide, b \in 1 .. MaxFree :
          /\ n = 2 * a + 2 * b
          /\ edges = RectangleGraph(a, b)
          /\ \E first \in 0 .. (2 * a + 2 * b - 1) :
                /\ rect = [a |-> a, b |-> b, first |-> first]
                /\ clean_orientation = [t \in 1 .. n |-> (t - 1 + first) % n]
    /\ pointcloud = Unread
    /\ edge_matrix = Unread
    /\ dim = 2
    /\ coords = Unread
    /\ self_p_idx = NoAttr
    /\ new_coords = NoCoords
    /\ k = NoFrame
    /\ edge_sen = NoFrame
    /\ build_i = NoFrame
    /\ NoSolveFrame
    /\ NoBoundaryFrame
    /\ connection_tol \in 1 .. MaxQTol
    /\ quotient_tol \in 1 .. MaxQTol
    /\ tol1 \in 1 .. MaxQTol
    /\ short_connections = NoFrame
    /\ short_idxs = NoFrame
    /\ short_edges = NoFrame
    /\ non_short_edges = NoFrame
    /\ glued_edges = NoFrame
    /\ same_orientation = NoFrame
    /\ orientation_dict = NoFrame
    /\ colour_dict = NoFrame
    /\ ret = None
    /\ exc = ""

\* lines 1651-1657: n = len(clean_orientation); intersection; return if no
\* place has a short-circuit
Intersection ==
    /\ pc = "intersection"
    /\ short_connections' = ShortConnections(clean_orientation, connection_tol)
    /\ short_idxs' = ShortIdxs(short_connections')
    /\ IF short_idxs' = <<>>
       THEN /\ pc' = "quotient_returned"
            /\ ret' = <<None, <<PyRange(0, Len(clean_orientation), Len(clean_orientation))>>,
                        None, orientation, clean_orientation, None, None, None>>
       ELSE /\ pc' = "identify_edges"
            /\ ret' = ret
    /\ UNCHANGED <<instVars, buildVars, solveVars, projVars, bndVars, rect, connection_tol,
                   quotient_tol, tol1, clean_orientation, short_edges, non_short_edges,
                   glued_edges, same_orientation, orientation_dict, colour_dict, exc>>

\* lines 1660-1662: identify_edges; return if there is no short edge
IdentifyEdges ==
    /\ pc = "identify_edges"
    /\ LET r == identify_edges(Len(clean_orientation), short_idxs, quotient_tol)
       IN  /\ short_edges' = r.short_edges
           /\ non_short_edges' = r.non_short_edges
    /\ IF short_edges' = <<>>
       THEN /\ pc' = "quotient_returned"
            /\ ret' = <<None, non_short_edges', None, orientation, clean_orientation,
                        None, None, None>>
       ELSE /\ pc' = "refine_edges"
            /\ ret' = ret
    /\ UNCHANGED <<instVars, buildVars, solveVars, projVars, bndVars, rect, connection_tol,
                   quotient_tol, tol1, clean_orientation, short_connections, short_idxs,
                   glued_edges, same_orientation, orientation_dict, colour_dict, exc>>

\* line 1663
RefineEdges ==
    /\ pc = "refine_edges"
    /\ short_edges' = refine_edges(short_edges, short_connections, tol1)
    /\ pc' = "connect_edges"
    /\ UNCHANGED <<instVars, buildVars, solveVars, projVars, bndVars, rect, connection_tol,
                   quotient_tol, tol1, clean_orientation, short_connections, short_idxs,
                   non_short_edges, glued_edges, same_orientation, orientation_dict,
                   colour_dict, ret, exc>>

\* line 1666
ConnectEdges ==
    /\ pc = "connect_edges"
    /\ glued_edges' \in connect_edges(short_edges, short_connections)
    /\ pc' = "gluing_orientation"
    /\ UNCHANGED <<instVars, buildVars, solveVars, projVars, bndVars, rect, connection_tol,
                   quotient_tol, tol1, clean_orientation, short_connections, short_idxs,
                   short_edges, non_short_edges, same_orientation, orientation_dict,
                   colour_dict, ret, exc>>

\* lines 1667-1669: gluing_orientation; return -1 if it does
GluingOrientation ==
    /\ pc = "gluing_orientation"
    /\ LET r == gluing_orientation(glued_edges, short_edges, short_connections)
       IN  IF r.failed
           THEN /\ pc' = "quotient_failed"
                /\ ret' = -1
                /\ same_orientation' = same_orientation
           ELSE /\ pc' = "assemble_quotient"
                /\ ret' = ret
                /\ same_orientation' = r.flags
    /\ UNCHANGED <<instVars, buildVars, solveVars, projVars, bndVars, rect, connection_tol,
                   quotient_tol, tol1, clean_orientation, short_connections, short_idxs,
                   short_edges, non_short_edges, glued_edges, orientation_dict,
                   colour_dict, exc>>

\* lines 1670-1672: assemble_quotient; its -1 cannot be unpacked into the two
\* dicts
AssembleQuotient ==
    /\ pc = "assemble_quotient"
    /\ LET r == assemble_quotient(glued_edges, same_orientation)
       IN  IF r.failed
           THEN /\ pc' = "quotient_raised"
                /\ exc' = TypeError
                /\ UNCHANGED <<orientation_dict, colour_dict, ret>>
           ELSE /\ pc' = "assembled"
                /\ orientation_dict' = r.orientation_dict
                /\ colour_dict' = r.colour_dict
                /\ ret' = <<short_edges, non_short_edges, glued_edges, orientation,
                            clean_orientation, same_orientation, r.orientation_dict,
                            r.colour_dict>>
                /\ exc' = exc
    /\ UNCHANGED <<instVars, buildVars, solveVars, projVars, bndVars, rect, connection_tol,
                   quotient_tol, tol1, clean_orientation, short_connections, short_idxs,
                   short_edges, non_short_edges, glued_edges, same_orientation>>

NextQuotient ==
    \/ Intersection
    \/ IdentifyEdges
    \/ RefineEdges
    \/ ConnectEdges
    \/ GluingOrientation
    \/ AssembleQuotient

SpecQuotient == InitQuotient /\ [][NextQuotient]_vars

\* the assembly has ended
QuotientEnded ==
    pc \in {"quotient_returned", "quotient_failed", "quotient_raised", "assembled"}

\* the short-circuit connections are those of a cylinder: every point of a
\* glued side has the point across, and the points of the free sides have none
CrossConnected ==
    \A t \in DOMAIN clean_orientation :
        LET x == clean_orientation[t]
        IN  short_connections[t] =
               IF x < rect.a \/ (rect.a + rect.b <= x /\ x < 2 * rect.a + rect.b)
               THEN {Mirror(rect.a, rect.b, x)}
               ELSE {}

-----------------------------------------------------------------------------
(* the same rectangle, glued with a twist *)

\* the fields the quotient functions do not read
QuotientInstance ==
    /\ pointcloud = Unread
    /\ edge_matrix = Unread
    /\ dim = 2
    /\ coords = Unread
    /\ self_p_idx = NoAttr
    /\ new_coords = NoCoords
    /\ k = NoFrame
    /\ edge_sen = NoFrame
    /\ build_i = NoFrame
    /\ NoSolveFrame
    /\ NoBoundaryFrame
    /\ ret = None
    /\ exc = ""

\* the instance, and the variables of the quotient functions before the first
\* of them has run
QuotientFrame ==
    /\ QuotientInstance
    /\ short_connections = NoFrame
    /\ short_idxs = NoFrame
    /\ short_edges = NoFrame
    /\ non_short_edges = NoFrame
    /\ glued_edges = NoFrame
    /\ same_orientation = NoFrame
    /\ orientation_dict = NoFrame
    /\ colour_dict = NoFrame

\* the place across from a place i of a glued side when the sides are glued
\* with a twist: the places across run with the cycle order
Across(a, b, i) == IF i < a THEN a + b + i ELSE i - a - b

\* x lies on one of the two glued sides
OnGluedSide(a, b, x) == x < a \/ (a + b <= x /\ x < 2 * a + b)

\* S.edges on the boundary of the twisted rectangle
MoebiusGraph(a, b) ==
    LET m == 2 * a + 2 * b
    IN  [x \in 0 .. (m - 1) |->
            {(x + 1) % m, (x + m - 1) % m}
            \cup (IF OnGluedSide(a, b, x) THEN {Across(a, b, x)} ELSE {})]

\* clean_boundary has returned the cycle of the twisted rectangle, walked from
\* any of its points (line 1650)
InitMoebius ==
    /\ pc = "intersection"
    /\ \E a \in 1 .. MaxSide, b \in 1 .. MaxFree :
          /\ n = 2 * a + 2 * b
          /\ edges = MoebiusGraph(a, b)
          /\ \E first \in 0 .. (2 * a + 2 * b - 1) :
                /\ rect = [a |-> a, b |-> b, first |-> first]
                /\ clean_orientation = [t \in 1 .. n |-> (t - 1 + first) % n]
    /\ QuotientFrame
    /\ connection_tol \in 1 .. MaxQTol
    /\ quotient_tol \in 1 .. MaxQTol
    /\ tol1 \in 1 .. MaxQTol

SpecMoebius == InitMoebius /\ [][NextQuotient]_vars

\* the short-circuit connections are those of a Moebius band: every point of
\* a glued side has the point across, and the points of the free sides have
\* none
TwistConnected ==
    \A t \in DOMAIN clean_orientation :
        LET x == clean_orientation[t]
        IN  short_connections[t] =
               IF OnGluedSide(rect.a, rect.b, x) THEN {Across(rect.a, rect.b, x)} ELSE {}

-----------------------------------------------------------------------------
(* assemble_quotient on the gluings of three short edges *)

\* the pairs of three short edges
EdgePairs == {{0, 1}, {1, 2}, {0, 2}}

\* the lists of lists that list(...) makes of a set of frozensets: the sets
\* in any order, the members of each in any order
PairLists(kept) ==
    UNION {{h \in [1 .. Cardinality(kept) -> UNION {Listings(x) : x \in kept}] :
               \A t \in DOMAIN h : h[t] \in Listings(f[t])}
           : f \in Listings(kept)}

\* assemble_quotient is handed any gluing of three short edges, listed in any
\* order, with any flags (line 1670)
InitAssemble ==
    /\ pc = "assemble_quotient"
    /\ n = 0
    /\ edges = Unread
    /\ QuotientInstance
    /\ rect = NoFrame
    /\ connection_tol = NoFrame
    /\ quotient_tol = NoFrame
    /\ tol1 = NoFrame
    /\ clean_orientation = Unread
    /\ short_connections = Unread
    /\ short_idxs = Unread
    /\ short_edges = Unread
    /\ non_short_edges = Unread
    /\ \E kept \in (SUBSET EdgePairs) \ {{}} :
          /\ glued_edges \in PairLists(kept)
          /\ same_orientation \in [1 .. Cardinality(kept) -> BOOLEAN]
    /\ orientation_dict = NoFrame
    /\ colour_dict = NoFrame

NextAssemble == AssembleQuotient

SpecAssemble == InitAssemble /\ [][NextAssemble]_vars

\* the number of pairs flagged reversed orientation
Reversed(same) == Cardinality({t \in DOMAIN same : ~ same[t]})

\* assemble_quotient has run on three mutually glued short edges
TriangleAssembled ==
    /\ pc \in {"quotient_raised", "assembled"}
    /\ Len(glued_edges) = 3

\* C12, as stated: for three mutually glued short edges, in any listing order,
\* of which one or three are flagged reversed orientation, assemble_quotient
\* reports an incompatible gluing and returns no maps.
OddReversedIsIncompatible ==
    (TriangleAssembled /\ Reversed(same_orientation) \in {1, 3}) => pc = "quotient_raised"

\* C12, amended: for three mutually glued short edges, in any listing order,
\* assemble_quotient reports an incompatible gluing exactly when an even
\* number (none or two) of the pairs are flagged reversed orientation; with
\* one or three reversed pairs it returns its two maps, which give all three
\* edges one colour.
EvenReversedIsIncompatible ==
    TriangleAssembled =>
        /\ (pc = "quotient_raised") <=> (Reversed(same_orientation) \in {0, 2})
        /\ pc = "assembled" =>
              /\ DOMAIN orientation_dict = {0, 1, 2}
              /\ Range(colour_dict) = {0}
              /\ \A t \in 1 .. 3 :
                    (orientation_dict[At(glued_edges[t], 0)]
                       # orientation_dict[At(glued_edges[t], 1)]) <=> same_orientation[t]

\* assemble_quotient has found three mutually glued edges, two of them
\* reversed, incompatible
EvenReversedIsIncompatibleWitness ==
    /\ pc = "quotient_raised"
    /\ Len(glued_edges) = 3
    /\ Reversed(same_orientation) = 2

-----------------------------------------------------------------------------
(* intersection and identify_edges on a cycle with any chords *)

MaxCycle == 6      \* most points of a cleaned cycle with arbitrary chords
MaxChords == 2     \* most links besides those along the cycle

\* the links along a cycle of m points
RingLinks(m) == {<<i, (i + 1) % m>> : i \in 0 .. (m - 1)}

\* the pairs of the m cycle points and one point off the cycle that are not
\* next to each other on the cycle
ChordLinks(m) ==
    {e \in (0 .. m) \X (0 .. m) :
        e[1] < e[2] /\ e \notin RingLinks(m) /\ <<e[2], e[1]>> \notin RingLinks(m)}

\* clean_boundary has returned a cycle of m of the m + 1 points, walked from
\* any of them; besides its neighbours along the cycle a point has any
\* neighbours, on the cycle or off it (line 1650)
InitChords ==
    /\ pc = "intersection"
    /\ \E m \in 3 .. MaxCycle :
          /\ n = m + 1
          /\ \E L \in SUBSET ChordLinks(m) :
                /\ Cardinality(L) <= MaxChords
                /\ edges = GraphOf(RingLinks(m) \cup L)
          /\ \E first \in 0 .. (m - 1) :
                /\ rect = [a |-> 0, b |-> 0, first |-> first]
                /\ clean_orientation = [t \in 1 .. m |-> (t - 1 + first) % m]
    /\ QuotientFrame
    /\ connection_tol \in 1 .. MaxQTol
    /\ quotient_tol \in 1 .. MaxQTol
    /\ tol1 = 1

\* compute_quotient_edges as far as line 1662
NextChords ==
    \/ Intersection
    \/ IdentifyEdges

SpecChords == InitChords /\ [][NextChords]_vars

\* the places of the cleaned cycle
Places == 0 .. (Len(clean_orientation) - 1)

\* the neighbours of the point at place i that lie on the cleaned cycle at a
\* place more than connection_tol away from i
FarNeighbours(i) ==
    {At(clean_orientation, j) : j \in
        {u \in Places : /\ At(clean_orientation, u) \in edges[At(clean_orientation, i)]
                        /\ orientation_dist(i, u, Len(clean_orientation)) > connection_tol}}

-----------------------------------------------------------------------------
(* the square with both pairs of opposite sides glued: the discrete torus *)

\* the places of a square with sides of a steps, walked from a corner: the
\* corners are the places 0, a, 2a and 3a, and the four corners are one point
\* of the torus
Corner(a, x) == x % a = 0

\* the places glued to a place x: the other corners for a corner, the place
\* across, in matching orientation, for a place inside a side
TorusAcross(a, x) ==
    IF Corner(a, x) THEN {0, a, 2 * a, 3 * a} \ {x}
    ELSE IF x < 2 * a /\ x > a THEN {5 * a - x}
    ELSE IF x > 3 * a THEN {5 * a - x}
    ELSE {3 * a - x}

\* S.edges on the boundary of the square: the neighbours along the cycle and
\* the places glued to a place
TorusGraph(a) ==
    [x \in 0 .. (4 * a - 1) |->
        ({(x + 1) % (4 * a), (x + 4 * a - 1) % (4 * a)} \cup TorusAcross(a, x)) \ {x}]

\* clean_boundary has returned the cycle of the square, walked from any of
\* its points (line 1650)
InitTorus ==
    /\ pc = "intersection"
    /\ \E a \in 1 .. MaxSide :
          /\ n = 4 * a
          /\ edges = TorusGraph(a)
          /\ \E first \in 0 .. (4 * a - 1) :
                /\ rect = [a |-> a, b |-> 0, first |-> first]
                /\ clean_orientation = [t \in 1 .. n |-> (t - 1 + first) % n]
    /\ QuotientFrame
    /\ connection_tol \in 1 .. MaxQTol
    /\ quotient_tol \in 1 .. MaxQTol
    /\ tol1 \in 1 .. MaxQTol

SpecTorus == InitTorus /\ [][NextQuotient]_vars

\* the short-circuit connections are those of the torus: every place has the
\* places glued to it that are not next to it on the cycle
TorusConnected ==
    \A t \in DOMAIN clean_orientation :
        LET x == clean_orientation[t]
        IN  short_connections[t] = TorusAcross(rect.a, x) \ {(x + 1) % n, (x + n - 1) % n}

\* the points of a short edge
PointsOf(short_edge) == {At(clean_orientation, short_edge[t]) : t \in DOMAIN short_edge}

\* the points of the side of the square that starts at the corner c
SideFrom(c) == {(c + i) % n : i \in 0 .. rect.a}

\* the short edge with index e is the side that starts at the corner c
IsSide(e, c) == PointsOf(At(short_edges, e)) = SideFrom(c)

-----------------------------------------------------------------------------
(* three short edges that are glued to each other *)

\* a cycle of nine points: three sides of two points, 0 1, 3 4 and 6 7, with
\* one free point after each; the side of a point, none for a free point
SideOf(x) == IF x % 3 = 2 THEN -1 ELSE x \div 3

\* the links between points of different sides
SideLinks ==
    {e \in (0 .. 8) \X (0 .. 8) :
        e[1] < e[2] /\ SideOf(e[1]) # -1 /\ SideOf(e[2]) # -1 /\ SideOf(e[1]) # SideOf(e[2])}

\* clean_boundary has returned the cycle of the nine points, walked from any
\* of them; the points of the sides have any neighbours on the other sides,
\* over at most four links (line 1650)
InitTriangle ==
    /\ pc = "intersection"
    /\ n = 9
    /\ \E L \in SUBSET SideLinks :
          /\ Cardinality(L) <= 4
          /\ edges = GraphOf(RingLinks(9) \cup L)
    /\ \E first \in 0 .. 8 :
          /\ rect = [a |-> 2, b |-> 1, first |-> first]
          /\ clean_orientation = [t \in 1 .. 9 |-> (t - 1 + first) % 9]
    /\ QuotientFrame
    /\ connection_tol = 1
    /\ quotient_tol = 1
    /\ tol1 = 1

SpecTriangle == InitTriangle /\ [][NextQuotient]_vars

\* C15: when assemble_quotient finds an incompatible gluing,
\* compute_quotient_edges ends with a failure outcome of its own, the -1 it
\* also returns for unseparated short edges or an error that names the
\* inconsistency; it does not end with an unrelated error.  (A return of -1
\* is the control state "quotient_failed"; a raised error is "quotient_raised"
\* with its name in exc.)
InconsistencySurfaces ==
    (/\ pc \in {"quotient_raised", "assembled"}
     /\ assemble_quotient(glued_edges, same_orientation).failed) =>
        \/ pc = "quotient_failed"
        \/ pc = "quotient_raised" /\ exc = "QuotientInconsistency"

-----------------------------------------------------------------------------
(* the mask that clean_boundary returns *)

\* the places of the included points that follow the place i in cycle order,
\* nearest first (lines 320-324 without the break)
Following(incl, i) ==
    LET m == Size(incl)
    IN  SelectSeq([t \in 1 .. (m - 1) |-> (i + t) % m], LAMBDA j : incl[j])

\* C16: the mask that clean_boundary returns is a fixed point of the
\* look-ahead rule with window tol: for every included point v, none of the
\* 2nd to tol-th included points that follow v in cycle order is a neighbour
\* of v, the tol-th included.
MaskIsFixedPoint ==
    pc = "cleaned" =>
        \A i \in DOMAIN included :
            included[i] =>
                \A t \in 2 .. tol :
                    t <= Len(Following(included, i)) =>
                        orientation[Following(included, i)[t]][1]
                            \notin edges[orientation[i][1]]

-----------------------------------------------------------------------------
(* the while loop of clean_boundary ends *)

\* clean_boundary has passed its test and set up its loop (lines 301-311), on
\* the walk find_orientation returned for the ring of all points, for every
\* symmetric graph and every tol from 2 on; nothing is returned yet
InitLoop ==
    /\ pc = "clean_loop"
    /\ n = NNodes
    /\ pointcloud = Unread
    /\ edge_matrix = Unread
    /\ dim = 2
    /\ coords = Unread
    /\ self_p_idx = NoAttr
    /\ new_coords = NoCoords
    /\ k = NoFrame
    /\ edge_sen = NoFrame
    /\ build_i = NoFrame
    /\ NoSolveFrame
    /\ NoQuotientFrame
    /\ edges \in SymmetricGraphs
    /\ tol \in 2 .. MaxTol
    /\ orientation = [i \in 0 .. (NNodes - 1) |-> <<i, (i + 1) % NNodes>>]
    /\ n_edges = orientation
    /\ boundary_edges = Range(orientation)
    /\ included = [i \in DOMAIN orientation |-> TRUE]
    /\ keep_looping = TRUE
    /\ clean_run = 1
    /\ dropped = {}
    /\ passes = 0
    /\ ret = <<>>
    /\ exc = ""

\* the while loop and the return of clean_boundary
NextLoop ==
    \/ CleanPass
    \/ CleanReturns

\* a step of the call: a pass is counted or the call returns
LoopStep ==
    /\ pc = "clean_loop"
    /\ \/ passes' = passes + 1 /\ pc' = pc
       \/ passes' = passes /\ pc' = "cleaned"

\* the call is not left waiting: the interpreter goes on with the next pass
\* or with the return
SpecLoop == InitLoop /\ [][NextLoop]_vars /\ WF_<<pc, passes>>(LoopStep)

\* the number of included points
Kept(incl) == Cardinality({i \in DOMAIN incl : incl[i]})

\* C17: clean_boundary terminates for every 1-cycle, graph and tol: a pass
\* that sets keep_looping excludes at least one point that was included, a
\* pass that does not set it removes nothing and is the last, at most n passes
\* run, and the loop, once entered, ends with the return of the mask.
CleanTerminates ==
    /\ [][(pc = "clean_loop" /\ keep_looping) =>
             /\ keep_looping' => Kept(included') < Kept(included)
             /\ ~ keep_looping' => included' = included
             /\ \A i \in DOMAIN included : included'[i] => included[i]]_vars
    /\ [](pc \in {"clean_loop", "cleaned"} => passes <= Size(orientation))
    /\ [](pc \in {"clean_loop", "cleaned"} => Kept(included) >= 1)
    /\ ((pc = "clean_loop") ~> (pc = "cleaned"))

\* clean_boundary has returned after two passes that excluded points and a
\* last pass that removed nothing
CleanTerminatesWitness ==
    /\ pc = "cleaned"
    /\ passes >= 3

-----------------------------------------------------------------------------
(* what intersection and identify_edges return *)

Identified == pc = "refine_edges" \/ (pc = "quotient_returned" /\ short_idxs # <<>>)

\* the pairs of short-circuit places that follow each other on the cycle, the
\* last and the first among them
ConsecutiveShort ==
    {<<short_idxs[t], short_idxs[(t % Len(short_idxs)) + 1]>> : t \in DOMAIN short_idxs}

\* the number of places that lie strictly between the place p and the next
\* short-circuit place q, along the cycle
Between(p, q) == (q - p - 1) % Len(clean_orientation)

\* a short edge runs from the place p through the places after it to the
\* place q (the list of the full loop is read as a cycle)
Joined(p, q) ==
    \E e \in DOMAIN short_edges :
        \E t \in DOMAIN short_edges[e] :
            \A dd \in 0 .. (Between(p, q) + 1) :
                LET at == IF Len(short_edges[e]) = Len(clean_orientation)
                          THEN ((t + dd - 1) % Len(short_edges[e])) + 1
                          ELSE t + dd
                IN  /\ at \in DOMAIN short_edges[e]
                    /\ short_edges[e][at] = (p + dd) % Len(clean_orientation)

\* C19: identify_edges joins two short-circuit places that follow each other
\* on the cycle, the last and the first included, in one short edge exactly
\* if at most quotient_tol places that are not short-circuit places lie
\* strictly between them.
JoinedIffGapWithinTol ==
    Identified =>
        \A pq \in ConsecutiveShort :
            Joined(pq[1], pq[2]) <=> (Between(pq[1], pq[2]) <= quotient_tol)

\* how often the lists of runs list the place i
Listed(runs, i) ==
    Cardinality(UNION {{<<e, t>> : t \in {u \in DOMAIN runs[e] : runs[e][u] = i}} :
                          e \in DOMAIN runs})

\* C20: the short edges and the free runs that identify_edges returns
\* partition the cleaned cycle: every place is listed exactly once, in one
\* short edge or in one free run, never in both and never twice in a run.
RunsPartitionCycle ==
    Identified =>
        \A i \in Places : Listed(short_edges, i) + Listed(non_short_edges, i) = 1

-----------------------------------------------------------------------------
(* what refine_edges keeps of a short edge *)

\* compute_quotient_edges as far as line 1663
NextRefine ==
    \/ Intersection
    \/ IdentifyEdges
    \/ RefineEdges

SpecRefine == InitChords /\ [][NextRefine]_vars

\* the short edges that identify_edges returned and refine_edges was given
\* (line 1660)
Unsplit == identify_edges(Len(clean_orientation), short_idxs, quotient_tol).short_edges

\* the places that the lists of a list of runs hold
Held(runs) == UNION {Range(runs[e]) : e \in DOMAIN runs}

\* C21: refine_edges only splits: the pieces it returns for a short edge hold
\* exactly the places of that short edge, none is dropped and none is added,
\* pieces that follow each other share their splitting place, and a short
\* edge that is not refined is returned as it was.
RefineOnlySplits ==
    pc = "connect_edges" =>
        /\ Held(short_edges) = Held(Unsplit)
        /\ \A e \in DOMAIN Unsplit :
              LET pieces == RefineOne(Unsplit[e], short_connections, tol1)
              IN  /\ Held(pieces) = Range(Unsplit[e])
                  /\ \A t \in 1 .. (Len(pieces) - 1) :
                        pieces[t][Len(pieces[t])] = pieces[t + 1][1]
                  /\ Len(pieces) = 1 => pieces = <<Unsplit[e]>>

-----------------------------------------------------------------------------
(* the pairs that connect_edges returns *)

\* the indexes of the short edges
EdgeIdxs == 0 .. (Len(short_edges) - 1)

\* the points of the short edge e
EdgePoints(e) == {At(clean_orientation, At(short_edges, e)[t]) : t \in DOMAIN At(short_edges, e)}

\* how many short-circuit neighbours of the points of the short edge e are
\* points of the short edge f
Support(e, f) == Cardinality(EdgeConnections(At(short_edges, e), short_connections)
                             \cap EdgePoints(f))

\* the short edges that hold most of the short-circuit neighbours of e
BestPartners(e) == {f \in EdgeIdxs : \A g \in EdgeIdxs : Support(e, g) <= Support(e, f)}

\* the entries of glued_edges as sets
GluedPairs == {Range(glued_edges[t]) : t \in DOMAIN glued_edges}

\* C22: connect_edges pairs every short edge e with the short edge, e itself
\* possibly, that holds the largest number of the short-circuit neighbours of
\* the points of e (the first of them if several do); every short edge is in
\* at least one entry of the list it returns, every entry of two edges is
\* such a pairing, and an entry of one edge is kept only if the edge is in no
\* entry of two.
PairedWithBestPartner ==
    pc = "gluing_orientation" =>
        /\ \A e \in EdgeIdxs :
              LET f == SetMin(BestPartners(e))
              IN  \/ {e, f} \in GluedPairs
                  \/ f = e /\ \E pair \in GluedPairs : e \in pair /\ Cardinality(pair) = 2
        /\ \A e \in EdgeIdxs : \E pair \in GluedPairs : e \in pair
        /\ \A pair \in GluedPairs :
              /\ pair \subseteq EdgeIdxs
              /\ \E e \in pair : pair = {e, SetMin(BestPartners(e))}
              /\ Cardinality(pair) = 1 =>
                    \A other \in GluedPairs : pair \subseteq other => other = pair
        /\ Len(glued_edges) = Cardinality(GluedPairs)

\* connect_edges has paired a short edge with the one that holds more of its
\* neighbours than an edge listed before it does
PairedWithBestPartnerWitness ==
    /\ pc = "gluing_orientation"
    /\ \E e, f, g \in EdgeIdxs :
          /\ g < f
          /\ Support(e, f) > Support(e, g)
          /\ Support(e, g) > 0
          /\ {e, f} \in GluedPairs

-----------------------------------------------------------------------------
(* the verdict of gluing_orientation on two sides with arbitrary links *)

SideLen == 3       \* the points of each of two sides of a cleaned cycle
MaxCross == 4      \* most links between the two sides

\* a cycle of two sides of SideLen points with one free point after each:
\* the links from a point of the first side to a point of the second
CrossLinks == {<<a, SideLen + 1 + b>> : a \in 0 .. (SideLen - 1), b \in 0 .. (SideLen - 1)}

\* clean_boundary has returned the cycle of the two sides, walked from any
\* point; the points of one side have any neighbours on the other, over at
\* most MaxCross links (line 1650)
InitSides ==
    /\ pc = "intersection"
    /\ n = 2 * SideLen + 2
    /\ \E L \in SUBSET CrossLinks :
          /\ Cardinality(L) <= MaxCross
          /\ edges = GraphOf(RingLinks(n) \cup L)
    /\ \E first \in 0 .. (n - 1) :
          /\ rect = [a |-> SideLen, b |-> 1, first |-> first]
          /\ clean_orientation = [t \in 1 .. n |-> (t - 1 + first) % n]
    /\ QuotientFrame
    /\ connection_tol = 1
    /\ quotient_tol = 1
    /\ tol1 = 1

SpecSides == InitSides /\ [][NextQuotient]_vars

\* the points of the short edge e, in its order
EdgeList(e) == [t \in DOMAIN At(short_edges, e) |-> At(clean_orientation, At(short_edges, e)[t])]

\* the places in the short edge e, in its order, of the points that have a
\* short-circuit neighbour in the short edge f
Linked(e, f) ==
    Ascending({t \in DOMAIN EdgeList(e) :
                  ConnectionOrders(EdgeList(e)[t], EdgeList(f), short_connections) # {}})

\* the places in f of the neighbours of the k-th linked point of e
PartnerPlaces(e, f, step) ==
    ConnectionOrders(EdgeList(e)[Linked(e, f)[step]], EdgeList(f), short_connections)

\* the steps from a linked point of e to the next at which the partner
\* places run with the order of f, and those at which they run against it
StepsWith(e, f) ==
    Cardinality({step \in 2 .. Len(Linked(e, f)) :
        SetMax(PartnerPlaces(e, f, step)) >= SetMin(PartnerPlaces(e, f, step - 1))})
StepsAgainst(e, f) ==
    Cardinality({step \in 2 .. Len(Linked(e, f)) :
        SetMin(PartnerPlaces(e, f, step)) <= SetMax(PartnerPlaces(e, f, step - 1))})

\* C23: for every glued pair of two short edges gluing_orientation reports
\* reversed (False) exactly if, walking the linked points of the first edge
\* in cycle order, more steps run with the order of the partner edge than
\* against it; a tie, or a pair with fewer than two linked points, is reported
\* as same orientation; and the verdict is the same whichever of the two
\* edges is walked.
VerdictIsMajorityEitherWay ==
    pc = "assemble_quotient" =>
        \A t \in DOMAIN glued_edges :
            LET e == At(glued_edges[t], 0)
                f == At(glued_edges[t], 1)
            IN  /\ same_orientation[t] = ~ (StepsWith(e, f) > StepsAgainst(e, f))
                /\ Len(Linked(e, f)) < 2 => same_orientation[t]
                /\ (StepsWith(e, f) > StepsAgainst(e, f))
                       <=> (StepsWith(f, e) > StepsAgainst(f, e))

-----------------------------------------------------------------------------
(* assemble_quotient on a chain of glued short edges *)

MaxChain == 4      \* most pairs of a chain of glued short edges

\* the pairs of a chain of len + 1 short edges: each glued to the next
ChainPairs(len) == {{i, i + 1} : i \in 0 .. (len - 1)}

\* assemble_quotient is handed a chain of glued short edges, its pairs listed
\* in any order, each either way round, with any flags (line 1670)
InitChains ==
    /\ pc = "assemble_quotient"
    /\ n = 0
    /\ edges = Unread
    /\ QuotientInstance
    /\ rect = NoFrame
    /\ connection_tol = NoFrame
    /\ quotient_tol = NoFrame
    /\ tol1 = NoFrame
    /\ clean_orientation = Unread
    /\ short_connections = Unread
    /\ short_idxs = Unread
    /\ short_edges = Unread
    /\ non_short_edges = Unread
    /\ \E len \in 1 .. MaxChain :
          /\ glued_edges \in PairLists(ChainPairs(len))
          /\ same_orientation \in [1 .. len -> BOOLEAN]
    /\ orientation_dict = NoFrame
    /\ colour_dict = NoFrame

SpecChains == InitChains /\ [][NextAssemble]_vars

\* the short edges that occur in a glued pair
GluedIdxs == UNION {Range(glued_edges[t]) : t \in DOMAIN glued_edges}

\* a pair flagged same orientation asks for opposite orientation flags on its
\* two edges, a pair flagged reversed for equal ones (lines 694-713): the
\* pair t is satisfied by the flags od
Satisfies(od, t) ==
    (od[At(glued_edges[t], 0)] # od[At(glued_edges[t], 1)]) <=> same_orientation[t]

\* some choice of orientation flags satisfies every glued pair
Satisfiable ==
    \E od \in [GluedIdxs -> BOOLEAN] : \A t \in DOMAIN glued_edges : Satisfies(od, t)

\* C24: assemble_quotient reports an incompatible gluing only when the glued
\* pairs hold a cycle whose orientation constraints cannot all be satisfied;
\* on a gluing without such a cycle, a chain of pairs for one, it returns its
\* maps whatever the order in which the pairs are listed.
IncompatibleOnlyIfUnsatisfiable ==
    pc = "quotient_raised" => ~ Satisfiable

\* the short edges joined to the edges of S through glued pairs
RECURSIVE GluedTo(_)
GluedTo(S) ==
    LET T == S \cup UNION {Range(glued_edges[t]) :
                              t \in {u \in DOMAIN glued_edges : Range(glued_edges[u]) \cap S # {}}}
    IN  IF T = S THEN S ELSE GluedTo(T)

\* C25: when assemble_quotient returns its maps, every short edge of a glued
\* pair has an orientation flag and a colour, and two short edges have the
\* same colour exactly if a chain of glued pairs joins them, in whatever
\* order the pairs are listed.
ColourIsGluingClass ==
    pc = "assembled" =>
        /\ DOMAIN orientation_dict = GluedIdxs
        /\ DOMAIN colour_dict = GluedIdxs
        /\ \A a, b \in GluedIdxs :
              (colour_dict[a] = colour_dict[b]) <=> (b \in GluedTo({a}))

\* C28: when assemble_quotient returns its maps, every glued pair is
\* satisfied by the orientation flags: the two edges of a pair flagged same
\* orientation have opposite flags and those of a pair flagged reversed have
\* equal flags, the pairs whose two edges both had their flags before the
\* pair was reached included.
ReturnedFlagsSatisfyPairs ==
    pc = "assembled" =>
        /\ DOMAIN orientation_dict = GluedIdxs
        /\ \A t \in DOMAIN glued_edges : Satisfies(orientation_dict, t)

\* assemble_quotient has returned maps for three mutually glued edges: the
\* pair listed last found both its edges with flags
ReturnedFlagsSatisfyPairsWitness ==
    /\ pc = "assembled"
    /\ Len(glued_edges) = 3
    /\ \E t \in DOMAIN same_orientation : same_orientation[t]
    /\ \E t \in DOMAIN same_orientation : ~ same_orientation[t]

-----------------------------------------------------------------------------
(* the anchor of a placement in new_proj *)

\* C26: in new_proj the predecessor whose new coordinate anchors the
\* placement of a point has been placed in the second assignment already:
\* if the point's predecessor is a tear point the path is rerouted around
\* it, and if the rerouted predecessor and its own rerouted predecessor are
\* not placed yet, or no rerouted path exists, the original predecessor is
\* used; the call neither fails nor anchors at an unplaced point.
AnchorIsPlaced ==
    (/\ pc = "proj_loop"
     /\ loop_i <= n
     /\ ~ computed_points[sorted_inds[loop_i]]
     /\ InRange(predecessors[sorted_inds[loop_i]])) =>
        \A pred \in ProjPreds(sorted_inds[loop_i], predecessors[sorted_inds[loop_i]]) :
            /\ InRange(pred)
            /\ computed_points[PyIndex(pred)]

-----------------------------------------------------------------------------
(* the candidates that find_visible_edge keeps *)

\* C27: find_visible_edge keeps the candidate y of a point exactly if for no
\* other candidate z the angle at z between point - z and y - z is obtuse or
\* right, that is, y is dropped whenever (point - z).(y - z) <= 0 for some
\* other candidate z; the candidates it keeps are in their ascending order of
\* distance.
VisibleIffNoObtuseOrRight ==
    (pc = "build" /\ build_i < NPts) =>
        \A row \in KnnRows(pointcloud, build_i, k) :
            LET ind == Tail(row)
                visible_ind == find_visible_edge(pointcloud, build_i, ind)
            IN  /\ \A t \in DOMAIN ind :
                      (ind[t] \in Range(visible_ind)) <=>
                          ~ \E u \in DOMAIN ind :
                                /\ ind[u] # ind[t]
                                /\ Dot(Sub(pointcloud[build_i], pointcloud[ind[u]]),
                                       Sub(pointcloud[ind[t]], pointcloud[ind[u]])) <= 0
                /\ \A a, b \in DOMAIN visible_ind :
                      a < b => Dist(pointcloud, build_i, visible_ind[a])
                                  <= Dist(pointcloud, build_i, visible_ind[b])

-----------------------------------------------------------------------------
(* the base point that new_proj reads *)

\* C30: when a coordinate-solving operation has returned on an instance,
\* new_proj can be run on it: the base point index that new_proj reads is
\* stored on the instance and is the base index that the solve returned.
BaseIndexStored ==
    pc = "returned" =>
        /\ self_p_idx # NoAttr
        /\ self_p_idx = ret[1]

-----------------------------------------------------------------------------
(* connect_edges on a cycle with any links *)

RingLen == 8       \* the points of a cleaned cycle with any links

\* the pairs of points of a cycle of m points that are not next to each other
FarLinks(m) ==
    {e \in (0 .. (m - 1)) \X (0 .. (m - 1)) :
        e[1] < e[2] /\ e \notin RingLinks(m) /\ <<e[2], e[1]>> \notin RingLinks(m)}

\* clean_boundary has returned a cycle of RingLen points, walked from any of
\* them; besides its neighbours along the cycle a point has any neighbours on
\* the cycle, over at most MaxCross links (line 1650)
InitRing ==
    /\ pc = "intersection"
    /\ n = RingLen
    /\ \E L \in SUBSET FarLinks(n) :
          /\ Cardinality(L) <= MaxCross
          /\ edges = GraphOf(RingLinks(n) \cup L)
    /\ \E first \in 0 .. (n - 1) :
          /\ rect = [a |-> 0, b |-> 0, first |-> first]
          /\ clean_orientation = [t \in 1 .. n |-> (t - 1 + first) % n]
    /\ QuotientFrame
    /\ connection_tol = 1
    /\ quotient_tol = 1
    /\ tol1 = 1

SpecRing == InitRing /\ [][NextQuotient]_vars

\* C29: every pair of two short edges that connect_edges returns is supported
\* by a short-circuit connection: some point of one of the two edges has a
\* short-circuit neighbour among the points of the other; a short edge none
\* of whose short-circuit neighbours is a point of a short edge is not paired
\* with another edge.
GluedPairsAreConnected ==
    pc = "gluing_orientation" =>
        \A pair \in GluedPairs :
            Cardinality(pair) = 2 =>
                \E e, f \in pair : e # f /\ Support(e, f) > 0

=============================================================================
